---- MODULE Spec2Model ----
(***************************************************************************)
(* Sakhi: timed safety sessions (safety checks, location shares, SOS       *)
(* alerts) kept in Firestore, the React hooks that scan them for expiry,   *)
(* and the community helpfulness score of safe places.                     *)
(*                                                                         *)
(* Time is counted in ticks of 30 seconds, the period of the safety-check  *)
(* expiry timer; one minute is two ticks.                                  *)
(***************************************************************************)
EXTENDS Integers, Sequences, FiniteSets, TLC

\* ------------------------------------------------------------------------
\* Bounds of the exploration
\* ------------------------------------------------------------------------
MaxTime == 4
MaxDeadline == 6
MaxChecks == 2
LibChecks == 1
MaxEscalations == 2
MaxInflight == 2
MaxPending == 2
MaxSubmits == 2
MaxFeedback == 3
MaxAlerts == 2
MaxCalls == 1
MaxUpdates == 1
MaxNotices == 2
MaxErrors == 2
MaxShares == 2
MaxIdleTime == 24
MaxRecords == 7
MaxTagRecords == 10
MaxVolume == 10
MaxFetches == 2
MaxContacts == 3
MaxContactCalls == 2
MaxElements == 3
MaxReports == 4
MaxReportCalls == 1
PageSessions == 2

\* ------------------------------------------------------------------------
\* Program constants, in ticks of 30 s
\* ------------------------------------------------------------------------
\* duration * 60000 ms
TicksPerMinute == 2
\* setInterval(..., 30 * 1000)
CheckScanTicks == 1
\* setInterval(..., 60 * 1000)
ShareScanTicks == 2

\* distance > 0.5 km
SignificantMeters == 500

NoTimer == -1
NoAlert == 0
\* a share without endTime
NoEnd == -1

\* timeoutDuration = 10 * 60 * 1000
TimeoutTicks == 20
\* warningDuration = 2 * 60 * 1000
WarningTicks == 4
\* now - lastActivityRef.current > 30000
ActivityThrottleTicks == 1

CheckIds == 1..MaxChecks
\* contacts handed to a create call: none, or the primary contact
ContactLists == { <<>>, <<"c1">> }
\* minutes offered when a check is started
Durations == {1}
\* minutes handed to extendDeadline
ExtendMinutes == {-1, 0, 1}

VARIABLES
    now,              \* wall clock, new Date()
    mounted,          \* the page owning the hook is mounted
    safetyChecks,     \* Firestore collection safetyChecks: id -> document
    scanEscalations,  \* per check: emergency notifications sent by scans
    extendCalls,      \* extendDeadline calls between their read and write
    activeChecks,     \* useSafetyCheck state: the active list
    checkTimer,       \* expirationCheckRef: time of the next interval tick
    checkIntervals,   \* intervals set by the expiry effect and not cleared
    checkSnapDue,     \* an onSnapshot delivery is outstanding
    checkPending,     \* snapshot callbacks that scanned, awaiting onUpdate
    placeHelpfulness, \* Firestore collection placeHelpfulness: id -> feedback
    safePlace,        \* the helpfulness fields of the place's document
    submits,          \* submitPlaceHelpfulness calls in progress
    sosAlerts,        \* Firestore collection sosAlerts: id -> document
    sosUpdates,       \* number of documents in collection sosUpdates
    movedNotices,     \* per alert: location-update notifications sent
    locationCalls,    \* updateSOSLocation calls in progress
    tracking,         \* useSOS locationUpdateIntervalRef: the alert tracked
    sosErrors,        \* errors thrown by updateSOSLocation
    shareMounted,     \* the page owning useLocationShare is mounted
    locationShares,   \* Firestore collection locationShares: id -> document
    activeShares,     \* useLocationShare state: the active list
    shareTimer,       \* its expirationCheckRef: time of the next interval tick
    shareIntervals,   \* intervals set by its expiry effect and not cleared
    shareSnapDue,     \* an onSnapshot delivery of shares is outstanding
    sharePending,     \* share snapshot callbacks that scanned, awaiting onUpdate
    scanFailures,     \* failed writes the scans have logged
    signedIn,         \* useAuth currentUser is set
    lastActivityRef,  \* useSessionTimeout lastActivityRef
    warningAt,        \* warningTimeoutRef: when the warning timeout fires
    timeoutAt,        \* timeoutRef: when the sign-out timeout fires
    warningShownRef,  \* useSessionTimeout warningShownRef
    isWarningShown,   \* SessionProvider state
    remainingTime,    \* SessionProvider state
    countdownDue,     \* the countdown interval has yet to fire in this tick
    renderDue,        \* SessionProvider's state changed and it has yet to render
    lastUserActivity, \* time of the last activity event of the user
    wasSuspended,     \* the page was suspended since the user signed in
    feedbackSnapshot, \* the feedback records updatePlaceHelpfulness has read
    helpfulnessMetrics, \* the metrics it computed from them
    fetchState, \* fetchWithRetry: idle, contacting a server, returned or threw
    attempt, \* its loop variable i
    contacted, \* the servers it has sent the query to, in order
    responses, \* what came of each attempt
    fetchesDone, \* calls of fetchWithRetry that have ended
    trustedContacts, \* Firestore collection trustedContacts: id -> document
    contactCalls, \* calls of lib/contacts.ts in progress
    alarmAudio, \* lib/sos.ts alarmAudio: the Audio element of the last alarm started
    audioPlaying, \* the Audio elements that are playing
    nearbyPlaces, \* the places the last fetchNearby call returned
    reportCount, \* per place: the reportCount field of its document
    reportCalls, \* reportSafePlace calls between their read and their write
    reportsDone \* per place: reportSafePlace calls that have succeeded

sessionVars == << now, mounted, safetyChecks, scanEscalations, extendCalls,
                  activeChecks, checkTimer, checkIntervals, checkSnapDue,
                  checkPending >>

placeVars == << placeHelpfulness, safePlace, submits >>

sosVars == << sosAlerts, sosUpdates, movedNotices, locationCalls, tracking,
             sosErrors >>

shareVars == << shareMounted, locationShares, activeShares, shareTimer,
               shareIntervals, shareSnapDue, sharePending >>

idleVars == << signedIn, lastActivityRef, warningAt, timeoutAt, warningShownRef,
              isWarningShown, remainingTime, countdownDue, renderDue,
              lastUserActivity, wasSuspended >>

aggVars == << feedbackSnapshot, helpfulnessMetrics >>

fetchVars == << fetchState, attempt, contacted, responses, fetchesDone >>

contactVars == << trustedContacts, contactCalls >>

alarmVars == << alarmAudio, audioPlaying >>

nearbyVars == << nearbyPlaces >>

reportVars == << reportCount, reportCalls, reportsDone >>

vars == << sessionVars, placeVars, sosVars, shareVars, scanFailures, idleVars,
          aggVars,
          fetchVars,
          contactVars,
          alarmVars,
          nearbyVars,
          reportVars >>

\* what the actions of one part of the program leave alone
nonSessionVars == << placeVars, sosVars, shareVars, scanFailures, idleVars,
          aggVars,
          fetchVars,
          contactVars,
          alarmVars,
          nearbyVars,
          reportVars >>
nonPlaceVars == << sessionVars, sosVars, shareVars, scanFailures, idleVars,
          aggVars,
          fetchVars,
          contactVars,
          alarmVars,
          nearbyVars,
          reportVars >>
nonSosVars == << sessionVars, placeVars, shareVars, scanFailures, idleVars,
          aggVars,
          fetchVars,
          contactVars,
          alarmVars,
          nearbyVars,
          reportVars >>
nonShareVars == << sessionVars, placeVars, sosVars, scanFailures, idleVars,
          aggVars,
          fetchVars,
          contactVars,
          alarmVars,
          nearbyVars,
          reportVars >>
nonIdleVars == << placeVars, sosVars, shareVars, scanFailures, aggVars,
          fetchVars,
          contactVars,
          alarmVars,
          nearbyVars,
          reportVars >>
nonAggVars == << sessionVars, placeVars, sosVars, shareVars, scanFailures,
                idleVars, fetchVars,
          contactVars,
          alarmVars,
          nearbyVars,
          reportVars >>
nonFetchVars == << sessionVars, placeVars, sosVars, shareVars,
          scanFailures, idleVars, aggVars, contactVars,
          alarmVars,
          nearbyVars,
          reportVars >>
nonContactVars == << sessionVars, placeVars, sosVars, shareVars,
          scanFailures, idleVars, aggVars, fetchVars, alarmVars,
          nearbyVars,
          reportVars >>
nonAlarmVars == << sessionVars, placeVars, sosVars, shareVars,
          scanFailures, idleVars, aggVars, fetchVars,
          contactVars, nearbyVars,
          reportVars >>
nonNearbyVars == << sessionVars, placeVars, sosVars, shareVars,
          scanFailures, idleVars, aggVars, fetchVars,
          contactVars, alarmVars, reportVars >>
nonReportVars == << sessionVars, placeVars, sosVars, shareVars,
          scanFailures, idleVars, aggVars, fetchVars,
          contactVars, alarmVars, nearbyVars >>
\* what the calls that start and stop the alarm leave alone
nonSosAlarmVars == << sessionVars, placeVars, shareVars, scanFailures, idleVars,
                     aggVars, fetchVars, contactVars, nearbyVars,
          reportVars >>

\* ------------------------------------------------------------------------
\* Firestore helpers
\* ------------------------------------------------------------------------
Min(a, b) == IF a < b THEN a ELSE b
Max(a, b) == IF a > b THEN a ELSE b

\* updateDoc: merge the given fields into the stored document
UpdateDoc(coll, id, fields) == [coll EXCEPT ![id] = fields @@ @]

\* addDoc: store the document under a fresh id
NextId(coll) == Cardinality(DOMAIN coll) + 1
AddDoc(coll, data) == (NextId(coll) :> data) @@ coll

RECURSIVE SeqOfIds(_)
SeqOfIds(S) ==
    IF S = {} THEN <<>>
    ELSE LET m == CHOOSE x \in S : \A y \in S : x <= y
         IN <<m>> \o SeqOfIds(S \ {m})

\* query(... where('isActive', '==', true)) mapped to list entries
ActiveQuery(coll) ==
    LET ids == SeqOfIds({ i \in DOMAIN coll : coll[i].isActive })
    IN [ k \in 1..Len(ids) |-> [id |-> ids[k]] @@ coll[ids[k]] ]

\* a write reaches the onSnapshot listener when it changes the query result
QueryChanged(old, new) == ActiveQuery(old) # ActiveQuery(new)

\* ------------------------------------------------------------------------
\* lib/safetyCheck.ts
\* ------------------------------------------------------------------------
NewSafetyCheck(contacts, duration, t) ==
    [ contactIds      |-> contacts,
      checkInDeadline |-> t + duration * TicksPerMinute,
      duration        |-> duration,
      isActive        |-> TRUE,
      hasCheckedIn    |-> FALSE,
      status          |-> "active" ]

\* the test with the deadline itself excluded
IsOverdueStrict(check, t) ==
    check.checkInDeadline < t /\ check.isActive /\ ~check.hasCheckedIn

\* the test of checkAndExpireSafetyChecks
IsOverdue(check, t) ==
    check.checkInDeadline <= t /\ check.isActive /\ ~check.hasCheckedIn

\* a catch around the whole loop: the entries after the failed one are skipped
AfterWriteErrorAbort(i, n) == n + 1

\* the catch is inside the loop: the entry after the failed one comes next
AfterWriteError(i, n) == i + 1

\* the loop of the scan from entry i on; updateDoc throws for the ids in down
\* and logs the failure (console.error)
RECURSIVE ExpireFrom(_, _, _, _, _, _, _)
ExpireFrom(checks, i, t, coll, esc, down, logged) ==
    IF i > Len(checks) THEN [store |-> coll, alerts |-> esc, logged |-> logged]
    ELSE LET check == checks[i] IN
         IF IsOverdue(check, t)
         THEN IF check.id \in down
              THEN ExpireFrom(checks, AfterWriteError(i, Len(checks)), t,
                              coll, esc, down, Min(logged + 1, MaxErrors))
              ELSE ExpireFrom(checks, i + 1, t,
                       UpdateDoc(coll, check.id,
                                 [isActive |-> FALSE, status |-> "alerted"]),
                       [esc EXCEPT ![check.id] = Min(@ + 1, MaxEscalations)],
                       down, logged)
         ELSE ExpireFrom(checks, i + 1, t, coll, esc, down, logged)

\* the scan while the store takes every write
checkAndExpireSafetyChecks(checks, t, coll, esc) ==
    ExpireFrom(checks, 1, t, coll, esc, {}, 0)

AnyOverdue(checks, t) == \E i \in 1..Len(checks) : IsOverdue(checks[i], t)

\* a write to the collection, as the subscribed hook sees it
WriteChecks(new) ==
    /\ safetyChecks' = new
    /\ checkSnapDue' = (checkSnapDue \/ (mounted /\ QueryChanged(safetyChecks, new)))

createSafetyCheck(contacts, duration) ==
    /\ NextId(safetyChecks) <= MaxChecks
    /\ now + duration * TicksPerMinute <= MaxDeadline
    /\ WriteChecks(AddDoc(safetyChecks, NewSafetyCheck(contacts, duration, now)))
    /\ scanEscalations' = (NextId(safetyChecks) :> 0) @@ scanEscalations
    /\ UNCHANGED << now, mounted, extendCalls, activeChecks, checkTimer,
                    checkIntervals, checkPending >>
    /\ UNCHANGED nonSessionVars

checkIn(id) ==
    /\ id \in DOMAIN safetyChecks
    /\ WriteChecks(UpdateDoc(safetyChecks, id,
           [isActive |-> FALSE, hasCheckedIn |-> TRUE, status |-> "checked-in"]))
    /\ UNCHANGED << now, mounted, scanEscalations, extendCalls, activeChecks,
                    checkTimer, checkIntervals, checkPending >>
    /\ UNCHANGED nonSessionVars

cancelSafetyCheck(id) ==
    /\ id \in DOMAIN safetyChecks
    /\ WriteChecks(UpdateDoc(safetyChecks, id,
           [isActive |-> FALSE, status |-> "checked-in"]))
    /\ UNCHANGED << now, mounted, scanEscalations, extendCalls, activeChecks,
                    checkTimer, checkIntervals, checkPending >>
    /\ UNCHANGED nonSessionVars

sendEmergencyAlert(id) ==
    /\ id \in DOMAIN safetyChecks
    /\ WriteChecks(UpdateDoc(safetyChecks, id,
           [isActive |-> FALSE, status |-> "alerted"]))
    /\ UNCHANGED << now, mounted, scanEscalations, extendCalls, activeChecks,
                    checkTimer, checkIntervals, checkPending >>
    /\ UNCHANGED nonSessionVars

\* extendDeadline up to its await getDocs: the deadline and duration it read
extendDeadlineRead(id, minutes) ==
    /\ id \in DOMAIN safetyChecks
    /\ Len(extendCalls) < MaxInflight
    /\ safetyChecks[id].checkInDeadline + minutes * TicksPerMinute \in 0..MaxDeadline
    /\ extendCalls' = Append(extendCalls,
           [ checkId           |-> id,
             additionalMinutes |-> minutes,
             currentDeadline   |-> safetyChecks[id].checkInDeadline,
             currentDuration   |-> safetyChecks[id].duration ])
    /\ UNCHANGED << now, mounted, safetyChecks, scanEscalations, activeChecks,
                    checkTimer, checkIntervals, checkSnapDue, checkPending >>
    /\ UNCHANGED nonSessionVars

RemoveAt(s, k) == [ j \in 1..(Len(s) - 1) |-> IF j < k THEN s[j] ELSE s[j + 1] ]

\* extendDeadline from its updateDoc on
extendDeadlineWrite(k) ==
    /\ k \in 1..Len(extendCalls)
    /\ LET c == extendCalls[k] IN
       WriteChecks(UpdateDoc(safetyChecks, c.checkId,
           [ checkInDeadline |-> c.currentDeadline + c.additionalMinutes * TicksPerMinute,
             duration        |-> c.currentDuration + c.additionalMinutes ]))
    /\ extendCalls' = RemoveAt(extendCalls, k)
    /\ UNCHANGED << now, mounted, scanEscalations, activeChecks, checkTimer,
                    checkIntervals, checkPending >>
    /\ UNCHANGED nonSessionVars

\* ------------------------------------------------------------------------
\* hooks/useSafetyCheck.ts
\* ------------------------------------------------------------------------
\* an effect cleanup that leaves the interval running
ClearedByNothing(ref, live) == live

\* the effect cleanup: clearInterval of the interval the ref holds, if any
ClearedBy(ref, live) == IF ref # NoTimer THEN live - 1 ELSE live

\* one run of checkAndExpireSafetyChecks over a list, against the store
ScanChecks(list) ==
    LET r == checkAndExpireSafetyChecks(list, now, safetyChecks, scanEscalations)
    IN /\ WriteChecks(r.store)
       /\ scanEscalations' = r.alerts

\* the expiry effect, run when activeChecks changes: cleanup, immediate scan,
\* new interval
ExpiryEffect(list) ==
    /\ activeChecks' = list
    /\ IF Len(list) > 0
       THEN /\ ScanChecks(list)
            /\ checkTimer' = now + CheckScanTicks
            /\ checkIntervals' = ClearedBy(checkTimer, checkIntervals) + 1
       ELSE /\ checkTimer' = NoTimer
            /\ checkIntervals' = ClearedBy(checkTimer, checkIntervals)
            /\ UNCHANGED << safetyChecks, scanEscalations, checkSnapDue >>

\* the onSnapshot callback of subscribeToActiveSafetyChecks.  With nothing
\* overdue its await does not suspend and onUpdate follows at once; otherwise
\* the callback scans and is suspended before onUpdate.
SnapshotCallback ==
    /\ mounted
    /\ checkSnapDue
    /\ LET checks == ActiveQuery(safetyChecks) IN
       IF AnyOverdue(checks, now)
       THEN /\ Len(checkPending) < MaxPending
            /\ LET r == checkAndExpireSafetyChecks(checks, now, safetyChecks, scanEscalations)
               IN /\ safetyChecks' = r.store
                  /\ scanEscalations' = r.alerts
                  /\ checkSnapDue' = QueryChanged(safetyChecks, r.store)
            /\ checkPending' = Append(checkPending, checks)
            /\ UNCHANGED << activeChecks, checkTimer, checkIntervals >>
       ELSE /\ activeChecks' = checks
            /\ checkTimer' = IF Len(checks) > 0 THEN now + CheckScanTicks ELSE NoTimer
            /\ checkIntervals' = ClearedBy(checkTimer, checkIntervals)
                                     + (IF Len(checks) > 0 THEN 1 ELSE 0)
            /\ checkSnapDue' = FALSE
            /\ UNCHANGED << safetyChecks, scanEscalations, checkPending >>
    /\ UNCHANGED << now, mounted, extendCalls >>
    /\ UNCHANGED nonSessionVars

\* a suspended snapshot callback resumes: onUpdate(checks), setActiveChecks,
\* and the expiry effect on the new list
OnUpdate(k) ==
    /\ mounted
    /\ k \in 1..Len(checkPending)
    /\ ExpiryEffect(checkPending[k])
    /\ checkPending' = RemoveAt(checkPending, k)
    /\ UNCHANGED << now, mounted, extendCalls >>
    /\ UNCHANGED nonSessionVars

\* the setInterval callback
IntervalTick ==
    /\ mounted
    /\ checkTimer # NoTimer
    /\ checkTimer <= now
    /\ ScanChecks(activeChecks)
    /\ checkTimer' = checkTimer + CheckScanTicks
    /\ UNCHANGED << now, mounted, extendCalls, activeChecks, checkIntervals,
                    checkPending >>
    /\ UNCHANGED nonSessionVars

\* 30 seconds pass.  Store round trips, snapshot deliveries and due timers
\* take far less than a tick, so none is outstanding when the clock moves.
Tick ==
    /\ now < MaxTime
    /\ extendCalls = <<>>
    /\ ~checkSnapDue
    /\ checkPending = <<>>
    /\ checkTimer = NoTimer \/ checkTimer > now
    /\ ~shareSnapDue
    /\ sharePending = <<>>
    /\ shareTimer = NoTimer \/ shareTimer > now
    /\ now' = now + 1
    /\ UNCHANGED << mounted, safetyChecks, scanEscalations, extendCalls,
                    activeChecks, checkTimer, checkIntervals, checkSnapDue,
                    checkPending >>
    /\ UNCHANGED nonSessionVars

\* ------------------------------------------------------------------------
\* lib/contacts.ts: the primary contact
\* ------------------------------------------------------------------------
\* no contact is stored and no call is in progress
NoContacts ==
    /\ trustedContacts = << >>
    /\ contactCalls = << >>

\* a call up to its first await: unsetPrimaryContacts(userId, exceptContactId)
\* has issued its getDocs when isPrimary is set, otherwise the write is next
BeginContactCall(op, contactId, isPrimary) ==
    /\ Len(contactCalls) < MaxContactCalls
    /\ contactCalls' = Append(contactCalls,
           [ op        |-> op,
             contactId |-> contactId,
             isPrimary |-> isPrimary,
             at        |-> IF isPrimary THEN "getDocs" ELSE "write",
             updates   |-> {} ])
    /\ UNCHANGED trustedContacts
    /\ UNCHANGED nonContactVars

\* addTrustedContact(contactData, user); the new contact has no id yet
NewContact == 0
addTrustedContact(isPrimary) ==
    /\ NextId(trustedContacts) + Cardinality({ k \in 1..Len(contactCalls) :
                                 contactCalls[k].contactId = NewContact }) <= MaxContacts
    /\ BeginContactCall("addTrustedContact", NewContact, isPrimary)

\* updateTrustedContact(contactId, { isPrimary }, user)
updateTrustedContact(contactId, isPrimary) ==
    /\ contactId \in DOMAIN trustedContacts
    /\ BeginContactCall("updateTrustedContact", contactId, isPrimary)

\* setPrimaryContact(contactId, user)
setPrimaryContact(contactId) ==
    /\ contactId \in DOMAIN trustedContacts
    /\ BeginContactCall("setPrimaryContact", contactId, TRUE)

\* unsetPrimaryContacts at the result of getDocs: the primary contacts of
\* the snapshot other than exceptContactId, an updateDoc started for each;
\* a rejected getDocs is caught and logged and nothing is unset
unsetPrimaryContactsQuery(k, ok) ==
    /\ k \in 1..Len(contactCalls)
    /\ contactCalls[k].at = "getDocs"
    /\ contactCalls' = [contactCalls EXCEPT ![k] =
           IF ok
           THEN [@ EXCEPT !.at = "Promise.all",
                          !.updates = { id \in DOMAIN trustedContacts :
                                            /\ trustedContacts[id].isPrimary
                                            /\ id # contactCalls[k].contactId }]
           ELSE [@ EXCEPT !.at = "write"]]
    /\ UNCHANGED trustedContacts
    /\ UNCHANGED nonContactVars

\* its updateDoc calls settle, those of the contacts in failed rejected:
\* Promise.all rejects, which is caught and logged, and the caller goes on
unsetPrimaryContactsWrite(k, failed) ==
    /\ k \in 1..Len(contactCalls)
    /\ contactCalls[k].at = "Promise.all"
    /\ failed \subseteq contactCalls[k].updates
    /\ trustedContacts' = [ id \in DOMAIN trustedContacts |->
           IF id \in contactCalls[k].updates \ failed
           THEN [trustedContacts[id] EXCEPT !.isPrimary = FALSE]
           ELSE trustedContacts[id] ]
    /\ contactCalls' = [contactCalls EXCEPT ![k].at = "write", ![k].updates = {}]
    /\ UNCHANGED nonContactVars

\* the caller's own write, with which the call ends: addDoc of the new
\* contact or updateDoc of isPrimary; a rejected write is rethrown
WriteContact(k, ok) ==
    /\ k \in 1..Len(contactCalls)
    /\ contactCalls[k].at = "write"
    /\ LET c == contactCalls[k] IN
       trustedContacts' =
           IF ~ok THEN trustedContacts
           ELSE IF c.contactId = NewContact
           THEN AddDoc(trustedContacts, [ isPrimary |-> c.isPrimary ])
           ELSE UpdateDoc(trustedContacts, c.contactId, [ isPrimary |-> c.isPrimary ])
    /\ contactCalls' = RemoveAt(contactCalls, k)
    /\ UNCHANGED nonContactVars

\* ------------------------------------------------------------------------
\* lib/overpassApi.ts: the places near a position
\* ------------------------------------------------------------------------
\* no fetchNearby call has returned
NothingNearby == nearbyPlaces = << >>

\* the elements of a response: each some distance away, with its
\* coordinates present or not; the distance is what calculateDistance gives,
\* in tenths of a metre: 120.4 m, 500 m, 999.6 m, 1.2 km, 2.34 km, 12 km
Elements ==
    [ away : { 1204, 5000, 9996, 12000, 23400, 120000 }, located : BOOLEAN ]

\* formatDistance(km): below 1 km Math.round(km * 1000) followed by 'm',
\* otherwise km.toFixed(1) followed by 'km'; the text is its number (in
\* tenths where it has a decimal) and its unit
formatDistance(away) ==
    IF away < 10000
    THEN [ number |-> (away + 5) \div 10, unit |-> "m" ]
    ELSE [ number |-> (away + 500) \div 1000, unit |-> "km" ]

\* parseFloat of such a text: the number at its start, whatever follows it;
\* in tenths
parseFloat(text) ==
    IF text.unit = "m" THEN text.number * 10 ELSE text.number

\* places.sort((a, b) => parseFloat(a.distance) - parseFloat(b.distance)):
\* ascending and stable
RECURSIVE SortByDistance(_)
SortByDistance(places) ==
    LET RECURSIVE Insert(_, _)
        Insert(sorted, place) ==
            IF sorted = << >> THEN << place >>
            ELSE IF parseFloat(sorted[1].distance) <= parseFloat(place.distance)
            THEN << sorted[1] >> \o Insert(Tail(sorted), place)
            ELSE << place >> \o sorted
    IN IF places = << >> THEN << >>
       ELSE Insert(SortByDistance(SubSeq(places, 1, Len(places) - 1)),
                   places[Len(places)])

\* what both functions return: a place for every element of the response
\* that has coordinates, sorted; [] when fetchWithRetry threw
NearbyPlaces(category, elements, ok) ==
    IF ~ok THEN << >>
    ELSE LET found == SelectSeq(elements, LAMBDA e : e.located)
         IN SortByDistance([ i \in 1..Len(found) |->
                               [ category    |-> category,
                                 coordinates |-> found[i].away,
                                 distance    |-> formatDistance(found[i].away) ] ])

fetchNearbyPoliceStations(elements, ok) ==
    /\ nearbyPlaces' = NearbyPlaces("police", elements, ok)
    /\ UNCHANGED nonNearbyVars

fetchNearbyHospitals(elements, ok) ==
    /\ nearbyPlaces' = NearbyPlaces("hospital", elements, ok)
    /\ UNCHANGED nonNearbyVars

\* ------------------------------------------------------------------------
\* lib/location.ts and useLocationShare
\* ------------------------------------------------------------------------
ShareIds == 1..MaxShares
\* minutes of a timed share; 0 for a share without duration
ShareDurations == { 0, 1 }

NewLocationShare(contacts, duration, t) ==
    [ sharedWith  |-> contacts,
      endTime     |-> IF duration # 0 THEN t + duration * TicksPerMinute ELSE NoEnd,
      isActive    |-> TRUE,
      checkInTime |-> NoEnd ]

\* the test of checkAndExpireShares
IsShareExpired(share, t) ==
    share.endTime # NoEnd /\ share.endTime <= t /\ share.isActive

\* the loop of checkAndExpireShares from entry i on; stopLocationShare throws
\* for the ids in down and the failure is logged
RECURSIVE ExpireSharesFrom(_, _, _, _, _, _)
ExpireSharesFrom(shares, i, t, coll, down, logged) ==
    IF i > Len(shares) THEN [store |-> coll, logged |-> logged]
    ELSE LET share == shares[i] IN
         IF IsShareExpired(share, t)
         THEN IF share.id \in down
              THEN ExpireSharesFrom(shares, AfterWriteError(i, Len(shares)), t,
                                    coll, down, Min(logged + 1, MaxErrors))
              ELSE ExpireSharesFrom(shares, i + 1, t,
                       UpdateDoc(coll, share.id,
                                 [isActive |-> FALSE, endTime |-> t]),
                       down, logged)
         ELSE ExpireSharesFrom(shares, i + 1, t, coll, down, logged)

\* the scan while the store takes every write
checkAndExpireShares(shares, t, coll) ==
    ExpireSharesFrom(shares, 1, t, coll, {}, 0).store

AnyShareExpired(shares, t) ==
    \E i \in 1..Len(shares) : IsShareExpired(shares[i], t)

\* a write to the collection, as the subscribed hook sees it
WriteShares(new) ==
    /\ locationShares' = new
    /\ shareSnapDue' = (shareSnapDue
                          \/ (shareMounted /\ QueryChanged(locationShares, new)))

createLocationShare(contacts, duration) ==
    /\ NextId(locationShares) <= MaxShares
    /\ now + duration * TicksPerMinute <= MaxDeadline
    /\ WriteShares(AddDoc(locationShares, NewLocationShare(contacts, duration, now)))
    /\ UNCHANGED << shareMounted, activeShares, shareTimer, shareIntervals,
                    sharePending >>
    /\ UNCHANGED nonShareVars

stopLocationShare(id, checkedIn) ==
    /\ id \in DOMAIN locationShares
    /\ WriteShares(UpdateDoc(locationShares, id,
           IF checkedIn
           THEN [isActive |-> FALSE, endTime |-> now, checkInTime |-> now]
           ELSE [isActive |-> FALSE, endTime |-> now]))
    /\ UNCHANGED << shareMounted, activeShares, shareTimer, shareIntervals,
                    sharePending >>
    /\ UNCHANGED nonShareVars

\* one run of checkAndExpireShares over a list, against the store
ScanShares(list) == WriteShares(checkAndExpireShares(list, now, locationShares))

\* the expiry effect of useLocationShare, run when activeShares changes
ShareExpiryEffect(list) ==
    /\ activeShares' = list
    /\ IF Len(list) > 0
       THEN /\ ScanShares(list)
            /\ shareTimer' = now + ShareScanTicks
            /\ shareIntervals' = ClearedBy(shareTimer, shareIntervals) + 1
       ELSE /\ shareTimer' = NoTimer
            /\ shareIntervals' = ClearedBy(shareTimer, shareIntervals)
            /\ UNCHANGED << locationShares, shareSnapDue >>

\* the onSnapshot callback of subscribeToActiveShares: as for safety checks,
\* it is suspended before onUpdate when its scan has something to write
ShareSnapshotCallback ==
    /\ shareMounted
    /\ shareSnapDue
    /\ LET shares == ActiveQuery(locationShares) IN
       IF AnyShareExpired(shares, now)
       THEN /\ Len(sharePending) < MaxPending
            /\ LET store == checkAndExpireShares(shares, now, locationShares)
               IN /\ locationShares' = store
                  /\ shareSnapDue' = QueryChanged(locationShares, store)
            /\ sharePending' = Append(sharePending, shares)
            /\ UNCHANGED << activeShares, shareTimer, shareIntervals >>
       ELSE /\ activeShares' = shares
            /\ shareTimer' = IF Len(shares) > 0 THEN now + ShareScanTicks ELSE NoTimer
            /\ shareIntervals' = ClearedBy(shareTimer, shareIntervals)
                                     + (IF Len(shares) > 0 THEN 1 ELSE 0)
            /\ shareSnapDue' = FALSE
            /\ UNCHANGED << locationShares, sharePending >>
    /\ UNCHANGED shareMounted
    /\ UNCHANGED nonShareVars

\* a suspended share snapshot callback resumes: onUpdate(shares)
ShareOnUpdate(k) ==
    /\ shareMounted
    /\ k \in 1..Len(sharePending)
    /\ ShareExpiryEffect(sharePending[k])
    /\ sharePending' = RemoveAt(sharePending, k)
    /\ UNCHANGED shareMounted
    /\ UNCHANGED nonShareVars

\* the setInterval callback of useLocationShare
ShareIntervalTick ==
    /\ shareMounted
    /\ shareTimer # NoTimer
    /\ shareTimer <= now
    /\ ScanShares(activeShares)
    /\ shareTimer' = shareTimer + ShareScanTicks
    /\ UNCHANGED << shareMounted, activeShares, shareIntervals, sharePending >>
    /\ UNCHANGED nonShareVars

\* ------------------------------------------------------------------------
\* Place helpfulness feedback (submitPlaceHelpfulness, updatePlaceHelpfulness)
\* ------------------------------------------------------------------------
Users == { "u1", "u2" }
ThePlace == "p1"

\* the helpfulness fields initializeHelpfulnessFields gives a place
NoScore ==
    [ helpfulCount        |-> 0,
      notHelpfulCount     |-> 0,
      totalFeedback       |-> 0,
      helpfulnessScore    |-> 0,
      serviceTags         |-> << >>,
      recentFeedbackCount |-> 0,
      confidenceLevel     |-> "low" ]

\* the fields of a place as addSafePlace stores it that matter here: it has
\* no helpfulness field
FreshPlace == [ rating |-> 0 ]

\* what updatePlaceHelpfulness writes to a place without feedback
ResetFields ==
    [ helpfulCount     |-> 0,
      totalFeedback    |-> 0,
      serviceTags      |-> << >>,
      helpfulnessScore |-> 0 ]

\* Math.round(overallRate * 0.7 + recentRate * 0.3) for helpful of total
\* records, recentHelpful of recentTotal recent ones (total > 0; the overall
\* rate is used for the recent one when recentTotal = 0), in JavaScript
\* numbers: IEEE 754 double precision, each operation rounded to nearest,
\* ties to even. A natural number is a sequence of limbs, least significant
\* first, without leading zero limbs; a positive double is [m, e] for
\* m * 2^e with m of exactly 53 bits, and zero has m = << >>.
UnifiedScore(helpful, total, recentHelpful, recentTotal) ==
    LET
        LimbBits == 12
        Limb == 2^LimbBits

        RECURSIVE NatNorm(_)
        NatNorm(a) ==
            IF a = << >> THEN << >>
            ELSE IF a[Len(a)] = 0 THEN NatNorm(SubSeq(a, 1, Len(a) - 1))
            ELSE a

        RECURSIVE NatAddFrom(_, _, _, _)
        NatAddFrom(a, b, i, carry) ==
            IF i > Len(a) /\ i > Len(b)
            THEN IF carry = 0 THEN << >> ELSE << carry >>
            ELSE LET sum == (IF i <= Len(a) THEN a[i] ELSE 0)
                            + (IF i <= Len(b) THEN b[i] ELSE 0) + carry
                 IN << sum % Limb >> \o NatAddFrom(a, b, i + 1, sum \div Limb)

        NatAdd(a, b) == NatAddFrom(a, b, 1, 0)

        \* a * k for 0 <= k <= Limb
        RECURSIVE NatMulSmallFrom(_, _, _, _)
        NatMulSmallFrom(a, k, i, carry) ==
            IF i > Len(a)
            THEN IF carry = 0 THEN << >> ELSE << carry >>
            ELSE LET prod == a[i] * k + carry
                 IN << prod % Limb >> \o NatMulSmallFrom(a, k, i + 1, prod \div Limb)

        NatMulSmall(a, k) == NatNorm(NatMulSmallFrom(a, k, 1, 0))

        \* a * Limb^n
        NatShlLimbs(a, n) ==
            IF a = << >> THEN << >> ELSE [ i \in 1..n |-> 0 ] \o a

        RECURSIVE NatMulFrom(_, _, _)
        NatMulFrom(a, b, i) ==
            IF i > Len(b) THEN << >>
            ELSE NatAdd(NatShlLimbs(NatMulSmall(a, b[i]), i - 1), NatMulFrom(a, b, i + 1))

        NatMul(a, b) == NatMulFrom(a, b, 1)

        \* a * 2^bits
        NatShl(a, bits) ==
            NatShlLimbs(NatMulSmall(a, 2^(bits % LimbBits)), bits \div LimbBits)

        \* quotient and remainder of a by d, 0 < d <= Limb, from the top limb down
        RECURSIVE NatDivSmallFrom(_, _, _, _)
        NatDivSmallFrom(a, d, i, rem) ==
            IF i = 0 THEN [ quot |-> << >>, rem |-> rem ]
            ELSE LET cur == rem * Limb + a[i]
                     rest == NatDivSmallFrom(a, d, i - 1, cur % d)
                 IN [ quot |-> Append(rest.quot, cur \div d), rem |-> rest.rem ]

        NatDivSmall(a, d) ==
            LET r == NatDivSmallFrom(a, d, Len(a), 0)
            IN [ quot |-> NatNorm(r.quot), rem |-> r.rem ]

        \* floor(a / 2^bits)
        NatShr(a, bits) ==
            LET n == bits \div LimbBits IN
            IF n >= Len(a) THEN << >>
            ELSE NatDivSmall(SubSeq(a, n + 1, Len(a)), 2^(bits % LimbBits)).quot

        RECURSIVE BitLength(_)
        BitLength(k) == IF k = 0 THEN 0 ELSE 1 + BitLength(k \div 2)

        NatBitLen(a) ==
            IF a = << >> THEN 0 ELSE (Len(a) - 1) * LimbBits + BitLength(a[Len(a)])

        \* bit i of a, bit 0 the least significant
        NatBit(a, i) ==
            LET n == i \div LimbBits + 1 IN
            IF n > Len(a) THEN 0 ELSE (a[n] \div 2^(i % LimbBits)) % 2

        \* the low k bits of a are all zero
        NatLowZero(a, k) ==
            LET n == k \div LimbBits IN
            /\ \A i \in 1..n : i <= Len(a) => a[i] = 0
            /\ n + 1 <= Len(a) => a[n + 1] % 2^(k % LimbBits) = 0

        RECURSIVE NatToInt(_)
        NatToInt(a) ==
            IF a = << >> THEN 0 ELSE a[1] + Limb * NatToInt(SubSeq(a, 2, Len(a)))

        MantissaBits == 53
        DoubleZero == [ m |-> << >>, e |-> 0 ]

        \* the double nearest to n * 2^e; sticky: the exact value is a little above
        \* n * 2^e (a division's remainder), and then n has more than 53 bits
        DoubleRound(n, e, sticky) ==
            LET len == NatBitLen(n) IN
            IF len = 0 THEN DoubleZero
            ELSE IF len <= MantissaBits
            THEN [ m |-> NatShl(n, MantissaBits - len), e |-> e - (MantissaBits - len) ]
            ELSE LET k == len - MantissaBits
                     q == NatShr(n, k)
                     above == sticky \/ ~NatLowZero(n, k - 1)
                     up == NatBit(n, k - 1) = 1 /\ (above \/ NatBit(q, 0) = 1)
                     m1 == IF up THEN NatAdd(q, << 1 >>) ELSE q
                 IN IF NatBitLen(m1) > MantissaBits
                    THEN [ m |-> NatShr(m1, 1), e |-> e + k + 1 ]
                    ELSE [ m |-> m1, e |-> e + k ]

        \* the number k, 0 <= k < Limb
        DoubleOf(k) == DoubleRound(NatNorm(<< k >>), 0, FALSE)

        \* a / b for numbers 0 <= a < Limb, 0 < b < Limb
        DoubleDivide(a, b) ==
            LET r == NatDivSmall(NatShl(NatNorm(<< a >>), 6 * LimbBits), b)
            IN DoubleRound(r.quot, -(6 * LimbBits), r.rem # 0)

        DoubleTimes(x, y) ==
            IF x.m = << >> \/ y.m = << >> THEN DoubleZero
            ELSE DoubleRound(NatMul(x.m, y.m), x.e + y.e, FALSE)

        DoublePlus(x, y) ==
            IF x.m = << >> THEN y
            ELSE IF y.m = << >> THEN x
            ELSE LET low == Min(x.e, y.e)
                 IN DoubleRound(NatAdd(NatShl(x.m, x.e - low), NatShl(y.m, y.e - low)),
                                low, FALSE)

        \* Math.round of a double below 2^52: the nearest integer, a half going up
        MathRound(x) ==
            IF x.m = << >> THEN 0
            ELSE NatToInt(NatShr(x.m, -x.e)) + NatBit(x.m, -x.e - 1)

        \* the literal 0.7: 0x1.6666666666666p-1
        Double07 == [ m |-> << 1638, 1638, 1638, 1638, 22 >>, e |-> -53 ]
        \* the literal 0.3: 0x1.3333333333333p-2
        Double03 == [ m |-> << 819, 819, 819, 819, 19 >>, e |-> -54 ]

        \* (count / of) * 100
        RatePercent(count, of) ==
            DoubleTimes(DoubleDivide(count, of), DoubleOf(100))

        overallHelpfulnessRate == RatePercent(helpful, total)
        recentHelpfulnessRate ==
            IF recentTotal > 0 THEN RatePercent(recentHelpful, recentTotal)
            ELSE overallHelpfulnessRate
    IN MathRound(DoublePlus(DoubleTimes(overallHelpfulnessRate, Double07),
                            DoubleTimes(recentHelpfulnessRate, Double03)))

\* feedbackAge <= 30 * 24 * 60 * 60 * 1000, in days
RecentDays == 30

\* no feedback has been read and nothing computed
NoMetrics == [ totalFeedback |-> -1 ]
NothingAggregated ==
    /\ feedbackSnapshot = << >>
    /\ helpfulnessMetrics = NoMetrics

\* ------------------------------------------------------------------------
\* lib/overpassApi.ts: fetchWithRetry
\* ------------------------------------------------------------------------
\* OVERPASS_SERVERS, by their host names
OVERPASS_SERVERS == << "overpass.kumi.systems", "overpass.openstreetmap.ru",
                       "overpass-api.de" >>

\* retries: number = 3
Retries == 3

\* what can come of one attempt: an OK response with a JSON body, an OK
\* response whose body response.json() rejects, a response with another
\* status, or fetch throwing (no connection, the 15 second timeout)
Outcomes == { "ok", "unparsable", "status", "failed" }

NothingFetched ==
    /\ fetchState = "idle"
    /\ attempt = 0
    /\ contacted = << >>
    /\ responses = << >>
    /\ fetchesDone = 0

\* the server of iteration i
ServerOfFirst(i) == OVERPASS_SERVERS[1]
ServerOf(i) == OVERPASS_SERVERS[(i % Len(OVERPASS_SERVERS)) + 1]

\* fetchNearbyPoliceStations or fetchNearbyHospitals calls fetchWithRetry
\* after the call before has ended
CallFetchWithRetry ==
    /\ fetchState \in { "idle", "returned", "threw" }
    /\ fetchesDone < MaxFetches
    /\ fetchState' = "running"
    /\ attempt' = 0
    /\ contacted' = << >>
    /\ responses' = << >>
    /\ UNCHANGED fetchesDone
    /\ UNCHANGED nonFetchVars

\* an iteration of the loop begins: fetch(server, ...)
ContactServer ==
    /\ fetchState = "running"
    /\ attempt < Retries
    /\ fetchState' = "awaiting"
    /\ contacted' = Append(contacted, ServerOf(attempt))
    /\ UNCHANGED << attempt, responses, fetchesDone >>
    /\ UNCHANGED nonFetchVars

\* the attempt ends, and the iteration with it
AttemptEnds(outcome) ==
    /\ fetchState = "awaiting"
    /\ responses' = Append(responses, outcome)
    /\ LET ended(state) ==
               /\ fetchState' = state
               /\ fetchesDone' = fetchesDone + 1
               /\ UNCHANGED attempt
       IN CASE outcome = "ok" -> ended("returned")
            [] outcome \in { "unparsable", "failed" } ->
                   IF attempt = Retries - 1
                   THEN ended("threw")
                   ELSE /\ fetchState' = "running"
                        /\ attempt' = attempt + 1
                        /\ UNCHANGED fetchesDone
            [] outcome = "status" ->
                   IF attempt + 1 < Retries
                   THEN /\ fetchState' = "running"
                        /\ attempt' = attempt + 1
                        /\ UNCHANGED fetchesDone
                   ELSE /\ fetchState' = "threw"
                        /\ attempt' = attempt + 1
                        /\ fetchesDone' = fetchesDone + 1
    /\ UNCHANGED contacted
    /\ UNCHANGED nonFetchVars

\* confidenceLevel of the metrics
ConfidenceLevelAbove(total) ==
    IF total > 10 THEN "high" ELSE IF total > 5 THEN "medium" ELSE "low"
ConfidenceLevel(total) ==
    IF total >= 10 THEN "high" ELSE IF total >= 5 THEN "medium" ELSE "low"

\* ids of the feedback documents of a place (where('placeId', '==', placeId))
FeedbackOf(coll, placeId) == { i \in DOMAIN coll : coll[i].placeId = placeId }

\* ids of one user's feedback on a place
FeedbackBy(coll, placeId, userId) ==
    { i \in FeedbackOf(coll, placeId) : coll[i].userId = userId }

\* the metrics updatePlaceHelpfulness derives from a non-empty feedback
\* snapshot; every record was written within the last 30 days and none names
\* a service tag
HelpfulnessMetrics(coll, placeId) ==
    LET docs == FeedbackOf(coll, placeId)
        helpful == Cardinality({ i \in docs : coll[i].isHelpful })
        total == Cardinality(docs)
    IN
    [ helpfulCount        |-> helpful,
      notHelpfulCount     |-> Cardinality({ i \in docs : ~coll[i].isHelpful }),
      totalFeedback       |-> total,
      helpfulnessScore    |-> UnifiedScore(helpful, total, helpful, total),
      serviceTags         |-> << >>,
      recentFeedbackCount |-> total,
      confidenceLevel     |-> ConfidenceLevel(total) ]

\* Math.max(1, Math.floor(totalFeedback * 0.2)): the double 0.2 is a little
\* above 1/5 and the product is rounded to a double not below
\* totalFeedback / 5, so the floor is the integer quotient
minTagVotes(totalFeedback) == Max(1, totalFeedback \div 5)

\* allServiceTags: the tags of all records, in the order of the records
RECURSIVE allServiceTags(_)
allServiceTags(docs) ==
    IF docs = << >> THEN << >>
    ELSE docs[1].serviceTags \o allServiceTags(Tail(docs))

\* occurrences of a tag in allServiceTags
TagCount(tags, tag) == Cardinality({ i \in 1..Len(tags) : tags[i] = tag })

\* slice(0, 6)
TopTagLimit == 6

\* topServiceTags
topServiceTags(docs) ==
    LET tags == allServiceTags(docs)
        \* tagCounts is an object literal: for a tag that names a property
        \* it inherits, acc[tag] is that property at the first occurrence
        \* already, not undefined, and (acc[tag] || 0) + 1 is a string,
        \* which no comparison with a number finds greater or equal
        ObjectPrototypeKeys == { "constructor", "toString", "valueOf" }
        NotANumber == -1
        \* tagCounts[tag], as the filter compares it
        tagCounts(tag) ==
            IF tag \in ObjectPrototypeKeys THEN NotANumber
            ELSE TagCount(tags, tag)
        \* the keys of tagCounts, in the order they were first added
        RECURSIVE TagKeys(_, _)
        TagKeys(rest, seen) ==
            IF rest = << >> THEN << >>
            ELSE IF rest[1] \in seen THEN TagKeys(Tail(rest), seen)
            ELSE << rest[1] >> \o TagKeys(Tail(rest), seen \cup { rest[1] })
        \* Array.prototype.sort with (a, b) => b - a on the counts:
        \* descending and stable
        RECURSIVE InsertByCount(_, _)
        InsertByCount(sorted, entry) ==
            IF sorted = << >> THEN << entry >>
            ELSE IF TagCount(tags, sorted[1]) >= TagCount(tags, entry)
            THEN << sorted[1] >> \o InsertByCount(Tail(sorted), entry)
            ELSE << entry >> \o sorted
        RECURSIVE SortByCount(_)
        SortByCount(entries) ==
            IF entries = << >> THEN << >>
            ELSE InsertByCount(SortByCount(SubSeq(entries, 1, Len(entries) - 1)),
                               entries[Len(entries)])
        votes == minTagVotes(Len(docs))
        kept == SelectSeq(TagKeys(tags, {}), LAMBDA tag : tagCounts(tag) >= votes)
        sorted == SortByCount(kept)
    IN SubSeq(sorted, 1, Min(TopTagLimit, Len(sorted)))

\* helpfulnessMetrics of a non-empty feedback snapshot
ComputeMetrics(docs) ==
    LET helpful == { i \in 1..Len(docs) : docs[i].isHelpful }
        recentFeedback == { i \in 1..Len(docs) : docs[i].updatedDaysAgo <= RecentDays }
        total == Len(docs)
    IN
    [ helpfulCount        |-> Cardinality(helpful),
      notHelpfulCount     |-> total - Cardinality(helpful),
      totalFeedback       |-> total,
      helpfulnessScore    |-> UnifiedScore(Cardinality(helpful), total,
                                  Cardinality(helpful \cap recentFeedback),
                                  Cardinality(recentFeedback)),
      serviceTags         |-> topServiceTags(docs),
      recentFeedbackCount |-> Cardinality(recentFeedback),
      confidenceLevel     |-> ConfidenceLevel(total) ]

\* updatePlaceHelpfulness computes the metrics of the snapshot it has read
Aggregate ==
    /\ feedbackSnapshot # << >>
    /\ helpfulnessMetrics = NoMetrics
    /\ helpfulnessMetrics' = ComputeMetrics(feedbackSnapshot)
    /\ UNCHANGED feedbackSnapshot
    /\ UNCHANGED nonAggVars

SetCall(k, c) == submits' = [submits EXCEPT ![k] = c]

\* submitPlaceHelpfulness is called and runs its query for existing feedback
\* of this user; docs[0] of a non-empty snapshot is the lowest id
BeginSubmit(userId, isHelpful) ==
    /\ LET mine == FeedbackBy(placeHelpfulness, ThePlace, userId) IN
       submits' = Append(submits,
           [ userId    |-> userId,
             isHelpful |-> isHelpful,
             pc        |-> "write",
             existing  |-> IF mine = {} THEN 0
                           ELSE CHOOSE i \in mine : \A j \in mine : i <= j,
             metrics   |-> NoScore ])
    /\ UNCHANGED << placeHelpfulness, safePlace >>
    /\ UNCHANGED nonPlaceVars

\* calls overlap, up to MaxSubmits of them and MaxFeedback records
SubmitQuery(userId, isHelpful) ==
    /\ Len(submits) < MaxSubmits
    /\ Cardinality(DOMAIN placeHelpfulness) + Len(submits) < MaxFeedback
    /\ BeginSubmit(userId, isHelpful)

\* it updates the feedback it found, or adds a new feedback document
SubmitWrite(k) ==
    /\ k \in 1..Len(submits)
    /\ submits[k].pc = "write"
    /\ LET c == submits[k] IN
       placeHelpfulness' =
           IF c.existing # 0
           THEN UpdateDoc(placeHelpfulness, c.existing, [isHelpful |-> c.isHelpful])
           ELSE AddDoc(placeHelpfulness,
                    [placeId |-> ThePlace, userId |-> c.userId, isHelpful |-> c.isHelpful])
    /\ SetCall(k, [submits[k] EXCEPT !.pc = "recompute"])
    /\ UNCHANGED safePlace
    /\ UNCHANGED nonPlaceVars

\* updatePlaceHelpfulness reads all feedback of the place and computes, or
\* takes the reset values if there is none
RecomputeRead(k) ==
    /\ k \in 1..Len(submits)
    /\ submits[k].pc = "recompute"
    /\ SetCall(k, [submits[k] EXCEPT !.pc = "store",
                       !.metrics =
                           IF FeedbackOf(placeHelpfulness, ThePlace) = {}
                           THEN ResetFields
                           ELSE HelpfulnessMetrics(placeHelpfulness, ThePlace)])
    /\ UNCHANGED << placeHelpfulness, safePlace >>
    /\ UNCHANGED nonPlaceVars

\* updatePlaceHelpfulness writes the metrics to the place; the call returns
RecomputeStore(k) ==
    /\ k \in 1..Len(submits)
    /\ submits[k].pc = "store"
    /\ safePlace' = submits[k].metrics @@ safePlace
    /\ submits' = RemoveAt(submits, k)
    /\ UNCHANGED placeHelpfulness
    /\ UNCHANGED nonPlaceVars

\* updatePlaceHelpfulness is called for the place by itself
updatePlaceHelpfulness ==
    /\ Len(submits) < MaxSubmits
    /\ submits' = Append(submits, [ pc |-> "recompute", metrics |-> NoScore ])
    /\ UNCHANGED << placeHelpfulness, safePlace >>
    /\ UNCHANGED nonPlaceVars

\* initializeHelpfulnessFields: a place that lacks one of the three fields
\* tested gets the default fields
initializeHelpfulnessFields ==
    /\ { "totalFeedback", "helpfulCount", "helpfulnessScore" }
           \ DOMAIN safePlace # {}
    /\ safePlace' = NoScore @@ safePlace
    /\ UNCHANGED << placeHelpfulness, submits >>
    /\ UNCHANGED nonPlaceVars

\* ------------------------------------------------------------------------
\* reportSafePlace
\* ------------------------------------------------------------------------
\* the places that can be reported
ReportedPlaces == { "p1", "p2", "p3" }

\* addSafePlace stores reportCount: 0; nobody has reported anything
NoReports ==
    /\ reportCount = [ p \in ReportedPlaces |-> 0 ]
    /\ reportCalls = << >>
    /\ reportsDone = [ p \in ReportedPlaces |-> 0 ]

\* the value of `stored || 0 + 1`: + binds tighter than ||, so this is
\* stored || 1, and a stored count other than 0 is the value itself
ReportCountOr(stored) == IF stored # 0 THEN stored ELSE 0 + 1

\* reportSafePlace up to the result of its getDocs: the value it will write
reportSafePlace(placeId) ==
    /\ Len(reportCalls) < MaxReportCalls
    /\ reportsDone[placeId]
           + Cardinality({ k \in 1..Len(reportCalls) :
                               reportCalls[k].placeId = placeId }) < MaxReports
    /\ reportCalls' = Append(reportCalls,
           [ placeId     |-> placeId,
             reportCount |-> ReportCountOr(reportCount[placeId]) ])
    /\ UNCHANGED << reportCount, reportsDone >>
    /\ UNCHANGED nonReportVars

\* its updateDoc, with which the call ends; a rejected write is rethrown
ReportWrite(k, ok) ==
    /\ k \in 1..Len(reportCalls)
    /\ LET c == reportCalls[k] IN
       IF ok
       THEN /\ reportCount' = [reportCount EXCEPT ![c.placeId] = c.reportCount]
            /\ reportsDone' = [reportsDone EXCEPT ![c.placeId] = @ + 1]
       ELSE UNCHANGED << reportCount, reportsDone >>
    /\ reportCalls' = RemoveAt(reportCalls, k)
    /\ UNCHANGED nonReportVars

\* ------------------------------------------------------------------------
\* lib/sos.ts and hooks/useSOS.ts
\* ------------------------------------------------------------------------
\* positions on a straight road, in metres from where the alert was triggered
Locations == { 0, 400, 600 }

\* great-circle distance of two positions of the road, in metres
calculateDistance(a, b) == IF a < b THEN b - a ELSE a - b

NewSOSAlert(contacts, location) ==
    [ contactIds            |-> contacts,
      status                |-> "active",
      initialLocation       |-> location,
      lastKnownLocation     |-> location,
      hasMovedSignificantly |-> FALSE ]

\* no alarm has been started; alarmAudio is null
NoAudio == 0
NoAlarm ==
    /\ alarmAudio = NoAudio
    /\ audioPlaying = {}

\* playAlarmSound: a new looping Audio element, here named after the alert
\* whose trigger made it, replaces alarmAudio and plays
playAlarmSound(element) ==
    /\ alarmAudio' = element
    /\ audioPlaying' = audioPlaying \cup { element }

\* stopAlarmSound: the element alarmAudio holds, if any, is paused and
\* alarmAudio is null
stopAlarmSound ==
    /\ alarmAudio' = NoAudio
    /\ audioPlaying' = audioPlaying \ { alarmAudio }

\* sosData.mode
Modes == { "silent", "loud" }

\* triggerSOS, the snapshot it causes, and startLocationTracking on the first
\* active alert
triggerSOS(contacts, mode) ==
    /\ Len(contacts) > 0
    /\ NextId(sosAlerts) <= MaxAlerts
    /\ IF mode = "loud" THEN playAlarmSound(NextId(sosAlerts))
       ELSE UNCHANGED alarmVars
    /\ sosAlerts' = AddDoc(sosAlerts, NewSOSAlert(contacts, 0))
    /\ movedNotices' = (NextId(sosAlerts) :> 0) @@ movedNotices
    /\ tracking' = CHOOSE id \in DOMAIN sosAlerts' :
                       /\ sosAlerts'[id].status = "active"
                       /\ \A j \in DOMAIN sosAlerts' :
                              sosAlerts'[j].status = "active" => id <= j
    /\ UNCHANGED << sosUpdates, locationCalls, sosErrors >>
    /\ UNCHANGED nonSosAlarmVars

\* the tracking interval fires: getCurrentLocation, getBatteryLevel, and
\* updateSOSLocation is called
TrackingTick(location) ==
    /\ tracking # NoAlert
    /\ Len(locationCalls) < MaxCalls
    /\ locationCalls' = Append(locationCalls,
           [ alertId  |-> tracking,
             location |-> location,
             pc       |-> "read",
             distance |-> 0,
             before   |-> sosAlerts[tracking] ])
    /\ UNCHANGED << sosAlerts, sosUpdates, movedNotices, tracking, sosErrors >>
    /\ UNCHANGED nonSosVars

\* updateSOSLocation reads the alert and computes the distance moved
UpdateRead(k) ==
    /\ k \in 1..Len(locationCalls)
    /\ locationCalls[k].pc = "read"
    /\ LET c == locationCalls[k]
           alertData == sosAlerts[c.alertId]
       IN locationCalls' = [locationCalls EXCEPT ![k] =
              [ c EXCEPT !.pc = "update",
                         !.distance = calculateDistance(alertData.initialLocation,
                                                        c.location),
                         !.before = alertData ]]
    /\ UNCHANGED << sosAlerts, sosUpdates, movedNotices, tracking, sosErrors >>
    /\ UNCHANGED nonSosVars

\* its updateDoc on the alert
UpdateAlert(k) ==
    /\ k \in 1..Len(locationCalls)
    /\ locationCalls[k].pc = "update"
    /\ LET c == locationCalls[k] IN
       /\ sosAlerts' = UpdateDoc(sosAlerts, c.alertId,
              [ lastKnownLocation     |-> c.location,
                hasMovedSignificantly |-> c.distance > SignificantMeters ])
       /\ locationCalls' = [locationCalls EXCEPT ![k].pc = "record"]
    /\ UNCHANGED << sosUpdates, movedNotices, tracking, sosErrors >>
    /\ UNCHANGED nonSosVars

\* the updateDoc fails: the call throws 'Failed to update SOS location'
UpdateAlertFails(k) ==
    /\ k \in 1..Len(locationCalls)
    /\ locationCalls[k].pc = "update"
    /\ locationCalls' = RemoveAt(locationCalls, k)
    /\ sosErrors' = Min(sosErrors + 1, MaxErrors)
    /\ UNCHANGED << sosAlerts, sosUpdates, movedNotices, tracking >>
    /\ UNCHANGED nonSosVars

\* its addDoc of the update record, then the notification when the distance
\* is beyond the threshold; the call returns
RecordUpdate(k) ==
    /\ k \in 1..Len(locationCalls)
    /\ locationCalls[k].pc = "record"
    /\ LET c == locationCalls[k] IN
       /\ sosUpdates' = Min(sosUpdates + 1, MaxUpdates)
       /\ movedNotices' =
              IF c.distance > SignificantMeters
              THEN [movedNotices EXCEPT ![c.alertId] = Min(@ + 1, MaxNotices)]
              ELSE movedNotices
    /\ locationCalls' = RemoveAt(locationCalls, k)
    /\ UNCHANGED << sosAlerts, tracking, sosErrors >>
    /\ UNCHANGED nonSosVars

\* the addDoc fails: the call throws 'Failed to update SOS location'
RecordUpdateFails(k) ==
    /\ k \in 1..Len(locationCalls)
    /\ locationCalls[k].pc = "record"
    /\ locationCalls' = RemoveAt(locationCalls, k)
    /\ sosErrors' = Min(sosErrors + 1, MaxErrors)
    /\ UNCHANGED << sosAlerts, sosUpdates, movedNotices, tracking >>
    /\ UNCHANGED nonSosVars

\* resolveAlert of the hook: resolveSOSAlert, then stopLocationTracking
resolveSOSAlert(id) ==
    /\ id \in DOMAIN sosAlerts
    /\ sosAlerts' = UpdateDoc(sosAlerts, id, [status |-> "resolved"])
    /\ tracking' = NoAlert
    /\ UNCHANGED << sosUpdates, movedNotices, locationCalls, sosErrors >>
    /\ stopAlarmSound
    /\ UNCHANGED nonSosAlarmVars

\* cancelAlert of the hook: cancelSOSAlert, then stopLocationTracking
cancelSOSAlert(id) ==
    /\ id \in DOMAIN sosAlerts
    /\ sosAlerts' = UpdateDoc(sosAlerts, id, [status |-> "cancelled"])
    /\ tracking' = NoAlert
    /\ UNCHANGED << sosUpdates, movedNotices, locationCalls, sosErrors >>
    /\ stopAlarmSound
    /\ UNCHANGED nonSosAlarmVars

\* ------------------------------------------------------------------------
\* useSessionTimeout as SessionProvider uses it
\* ------------------------------------------------------------------------
\* the session-timeout state of a browser nobody is signed in on
NobodySignedIn ==
    /\ signedIn = FALSE
    /\ lastActivityRef = 0
    /\ warningAt = NoTimer
    /\ timeoutAt = NoTimer
    /\ warningShownRef = FALSE
    /\ isWarningShown = FALSE
    /\ remainingTime = 0
    /\ countdownDue = FALSE
    /\ renderDue = FALSE
    /\ lastUserActivity = 0
    /\ wasSuspended = FALSE

\* resetTimeout with a user signed in: both timeouts are cleared and set anew
resetTimeout ==
    /\ warningShownRef' = FALSE
    /\ lastActivityRef' = now
    /\ warningAt' = now + (TimeoutTicks - WarningTicks)
    /\ timeoutAt' = now + TimeoutTicks

\* SessionProvider renders: onWarning and onTimeout are new functions, so
\* resetTimeout and handleActivity are new and the effect of useSessionTimeout
\* runs again: its cleanup clears both timeouts, then it calls resetTimeout
\* if a user is signed in
ProviderRenders(user) ==
    IF user
    THEN resetTimeout
    ELSE /\ warningAt' = NoTimer
         /\ timeoutAt' = NoTimer
         /\ UNCHANGED << warningShownRef, lastActivityRef >>

\* getRemainingTime
getRemainingTime(user, t) ==
    IF ~user THEN 0 ELSE Max(0, TimeoutTicks - (t - lastActivityRef))

\* an activity event of the user (mousedown, mousemove, keypress, ...)
handleActivity ==
    /\ signedIn
    /\ ~renderDue
    /\ lastUserActivity' = now
    /\ IF now - lastActivityRef > ActivityThrottleTicks
       THEN resetTimeout
       ELSE UNCHANGED << warningShownRef, lastActivityRef, warningAt, timeoutAt >>
    /\ UNCHANGED << signedIn, isWarningShown, remainingTime, countdownDue,
                    renderDue,
                    wasSuspended >>
    /\ UNCHANGED << sessionVars, nonIdleVars >>

\* the warning timeout fires: toast, and onWarning sets the provider's state
WarningTimeout ==
    /\ signedIn
    /\ warningAt # NoTimer
    /\ warningAt <= now
    /\ warningAt' = NoTimer
    /\ warningShownRef' = TRUE
    /\ isWarningShown' = TRUE
    /\ remainingTime' = WarningTicks
    /\ renderDue' = (~isWarningShown \/ remainingTime # WarningTicks)
    /\ countdownDue' = FALSE
    /\ UNCHANGED << signedIn, lastActivityRef, timeoutAt, lastUserActivity,
                    wasSuspended >>
    /\ UNCHANGED << sessionVars, nonIdleVars >>

\* SessionProvider renders after the warning and the effects run: the one of
\* useSessionTimeout resets the timeouts, the countdown interval starts
RenderAfterWarning ==
    /\ renderDue
    /\ renderDue' = FALSE
    /\ ProviderRenders(signedIn)
    /\ countdownDue' = FALSE
    /\ UNCHANGED << signedIn, isWarningShown, remainingTime, lastUserActivity,
                    wasSuspended >>
    /\ UNCHANGED << sessionVars, nonIdleVars >>

\* the sign-out timeout fires, after the warning timeout if both are due:
\* signOutUser, toast, onTimeout; currentUser changes and the effect's
\* cleanup clears the timeouts
SignOutTimeout ==
    /\ signedIn
    /\ timeoutAt # NoTimer
    /\ timeoutAt <= now
    /\ warningAt = NoTimer \/ warningAt > now
    /\ signedIn' = FALSE
    /\ isWarningShown' = FALSE
    /\ countdownDue' = FALSE
    /\ renderDue' = FALSE
    /\ ProviderRenders(FALSE)
    /\ UNCHANGED << remainingTime, lastUserActivity,
                    wasSuspended >>
    /\ UNCHANGED << sessionVars, nonIdleVars >>

\* the countdown interval of SessionProvider, every second while the warning
\* is shown, and the render that follows a change of state
CountdownTick ==
    /\ isWarningShown
    /\ countdownDue
    /\ ~renderDue
    /\ LET remaining == getRemainingTime(signedIn, now) IN
       /\ remainingTime' = remaining
       /\ isWarningShown' = (remaining > 0)
       /\ IF remaining # remainingTime \/ remaining <= 0
          THEN ProviderRenders(signedIn)
          ELSE UNCHANGED << warningShownRef, lastActivityRef, warningAt, timeoutAt >>
    /\ countdownDue' = FALSE
    /\ UNCHANGED << signedIn, renderDue, lastUserActivity,
                    wasSuspended >>
    /\ UNCHANGED << sessionVars, nonIdleVars >>

\* 'Stay Logged In': extendSession, setIsWarningShown(false), and the render
handleExtendSession ==
    /\ signedIn
    /\ isWarningShown
    /\ ~renderDue
    /\ lastUserActivity' = now
    /\ isWarningShown' = FALSE
    /\ countdownDue' = FALSE
    /\ resetTimeout
    /\ UNCHANGED << signedIn, remainingTime, renderDue,
                    wasSuspended >>
    /\ UNCHANGED << sessionVars, nonIdleVars >>

\* no timeout is due and no render is outstanding
NothingDue ==
    /\ signedIn => /\ warningAt = NoTimer \/ warningAt > now
                   /\ timeoutAt = NoTimer \/ timeoutAt > now
    /\ ~countdownDue
    /\ ~renderDue

\* time passes for the session timeout, nobody using the rest of the
\* application
IdlePasses(t) ==
    /\ now' = t
    /\ countdownDue' = isWarningShown
    /\ UNCHANGED << signedIn, lastActivityRef, warningAt, timeoutAt,
                    warningShownRef, isWarningShown, remainingTime, renderDue,
                    lastUserActivity >>
    /\ UNCHANGED << mounted, safetyChecks, scanEscalations, extendCalls,
                    activeChecks, checkTimer, checkIntervals, checkSnapDue,
                    checkPending >>
    /\ UNCHANGED nonIdleVars

\* 30 seconds pass with the page in the foreground: timeouts fire when due
IdleTick ==
    /\ now < MaxIdleTime
    /\ NothingDue
    /\ IdlePasses(now + 1)
    /\ UNCHANGED wasSuspended

\* the device is suspended or the page is in the background: time passes
\* and the browser runs no timeout until the page is back
Suspended ==
    /\ NothingDue
    /\ \E t \in (now + 1)..MaxIdleTime :
          /\ signedIn
          /\ timeoutAt # NoTimer
          /\ t >= timeoutAt
          /\ IdlePasses(t)
    /\ wasSuspended' = TRUE

\* a check started on an earlier visit whose deadline is reached as the page
\* opens
LeftoverCheck == NewSafetyCheck(<<"c1">>, 1, 0 - TicksPerMinute)

\* The page is open and subscribed; the store is empty or holds the leftover
\* check; the first snapshot is on its way.
Init ==
    /\ now = 0
    /\ mounted = TRUE
    /\ safetyChecks \in { << >>, (1 :> LeftoverCheck) }
    /\ scanEscalations = [ i \in DOMAIN safetyChecks |-> 0 ]
    /\ extendCalls = << >>
    /\ activeChecks = << >>
    /\ checkTimer = NoTimer
    /\ checkIntervals = 0
    /\ checkSnapDue = TRUE
    /\ checkPending = << >>
    /\ placeHelpfulness = << >>
    /\ safePlace = NoScore
    /\ submits = << >>
    /\ sosAlerts = << >>
    /\ sosUpdates = 0
    /\ movedNotices = << >>
    /\ locationCalls = << >>
    /\ tracking = NoAlert
    /\ sosErrors = 0
    /\ shareMounted = FALSE
    /\ locationShares = << >>
    /\ activeShares = << >>
    /\ shareTimer = NoTimer
    /\ shareIntervals = 0
    /\ shareSnapDue = FALSE
    /\ sharePending = << >>
    /\ scanFailures = 0
    /\ NothingAggregated
    /\ NothingFetched
    /\ NoReports
    /\ NothingNearby
    /\ NoAlarm
    /\ NoContacts
    /\ NobodySignedIn

\* what pages/SafetyCheck.tsx passes: the primary contact
UiContacts == { <<"c1">> }

Next ==
    \/ \E c \in UiContacts, d \in Durations : createSafetyCheck(c, d)
    \/ \E id \in CheckIds : checkIn(id)
    \/ \E id \in CheckIds : cancelSafetyCheck(id)
    \/ \E id \in CheckIds : sendEmergencyAlert(id)
    \/ SnapshotCallback
    \/ \E k \in 1..MaxPending : OnUpdate(k)
    \/ IntervalTick
    \/ Tick

Spec == Init /\ [][Next]_vars

\* ------------------------------------------------------------------------
\* The library called directly, no hook subscribed
\* ------------------------------------------------------------------------
\* nothing is stored and no page is open
EmptyStore ==
    /\ now = 0
    /\ mounted = FALSE
    /\ safetyChecks = << >>
    /\ scanEscalations = << >>
    /\ extendCalls = << >>
    /\ activeChecks = << >>
    /\ checkTimer = NoTimer
    /\ checkIntervals = 0
    /\ checkSnapDue = FALSE
    /\ checkPending = << >>
    /\ placeHelpfulness = << >>
    /\ safePlace = NoScore
    /\ submits = << >>
    /\ sosAlerts = << >>
    /\ sosUpdates = 0
    /\ movedNotices = << >>
    /\ locationCalls = << >>
    /\ tracking = NoAlert
    /\ sosErrors = 0
    /\ shareMounted = FALSE
    /\ locationShares = << >>
    /\ activeShares = << >>
    /\ shareTimer = NoTimer
    /\ shareIntervals = 0
    /\ shareSnapDue = FALSE
    /\ sharePending = << >>
    /\ scanFailures = 0

LibInit ==
    /\ EmptyStore
    /\ NothingAggregated
    /\ NothingFetched
    /\ NoReports
    /\ NothingNearby
    /\ NoAlarm
    /\ NoContacts
    /\ NobodySignedIn

\* getCheckInHistory: the user's checks that are no longer active (all of
\* them within the days asked for), each with the status shown for its
\* stored status
getCheckInHistory(coll) ==
    LET HistoryStatus(status) ==
            IF status = "checked-in" THEN "completed"
            ELSE IF status = "alerted" THEN "alerted"
            ELSE "missed"
    IN [id \in {i \in DOMAIN coll : ~coll[i].isActive} |->
           [checkId |-> id, status |-> HistoryStatus(coll[id].status)]]

\* createSafetyCheck with any contact list, on a store of at most LibChecks
LibCreate(contacts, duration) ==
    /\ NextId(safetyChecks) <= LibChecks
    /\ createSafetyCheck(contacts, duration)

LibNext ==
    \/ \E c \in ContactLists, d \in Durations : LibCreate(c, d)
    \/ \E id \in CheckIds : checkIn(id)
    \/ \E id \in CheckIds : cancelSafetyCheck(id)
    \/ \E id \in CheckIds : sendEmergencyAlert(id)
    \/ \E id \in CheckIds, m \in ExtendMinutes : extendDeadlineRead(id, m)
    \/ \E k \in 1..MaxInflight : extendDeadlineWrite(k)
    \/ Tick

LibSpec == LibInit /\ [][LibNext]_vars

\* ------------------------------------------------------------------------
\* Users rating one place, their calls overlapping freely
\* ------------------------------------------------------------------------
FeedbackNext ==
    \/ \E u \in Users, h \in BOOLEAN : SubmitQuery(u, h)
    \/ \E k \in 1..MaxSubmits : SubmitWrite(k)
    \/ \E k \in 1..MaxSubmits : RecomputeRead(k)
    \/ \E k \in 1..MaxSubmits : RecomputeStore(k)

FeedbackSpec == LibInit /\ [][FeedbackNext]_vars

\* ------------------------------------------------------------------------
\* An SOS alert with its location tracking, the store failing at will
\* ------------------------------------------------------------------------
AlertIds == 1..MaxAlerts

SosNext ==
    \/ \E c \in ContactLists, m \in Modes : triggerSOS(c, m)
    \/ \E l \in Locations : TrackingTick(l)
    \/ \E k \in 1..MaxCalls : UpdateRead(k)
    \/ \E k \in 1..MaxCalls : UpdateAlert(k)
    \/ \E k \in 1..MaxCalls : UpdateAlertFails(k)
    \/ \E k \in 1..MaxCalls : RecordUpdate(k)
    \/ \E k \in 1..MaxCalls : RecordUpdateFails(k)
    \/ \E id \in AlertIds : resolveSOSAlert(id)
    \/ \E id \in AlertIds : cancelSOSAlert(id)

SosSpec == LibInit /\ [][SosNext]_vars

\* ------------------------------------------------------------------------
\* The scans run on the stored active lists while the store refuses the
\* writes to some documents
\* ------------------------------------------------------------------------
\* checkAndExpireSafetyChecks on the active checks, updateDoc failing for down
ScanChecksDuringOutage(down) ==
    /\ LET r == ExpireFrom(ActiveQuery(safetyChecks), 1, now, safetyChecks,
                           scanEscalations, down, scanFailures)
       IN /\ WriteChecks(r.store)
          /\ scanEscalations' = r.alerts
          /\ scanFailures' = r.logged
    /\ UNCHANGED << now, mounted, extendCalls, activeChecks, checkTimer,
                    checkIntervals, checkPending >>
    /\ UNCHANGED << placeVars, sosVars, shareVars, idleVars, aggVars,
          fetchVars,
          contactVars,
          alarmVars,
          nearbyVars,
          reportVars >>

\* checkAndExpireShares on the active shares, stopLocationShare failing for down
ScanSharesDuringOutage(down) ==
    /\ LET r == ExpireSharesFrom(ActiveQuery(locationShares), 1, now,
                                 locationShares, down, scanFailures)
       IN /\ WriteShares(r.store)
          /\ scanFailures' = r.logged
    /\ UNCHANGED << shareMounted, activeShares, shareTimer, shareIntervals,
                    sharePending >>
    /\ UNCHANGED << sessionVars, placeVars, sosVars, idleVars, aggVars,
          fetchVars,
          contactVars,
          alarmVars,
          nearbyVars,
          reportVars >>

\* The two scans have no state in common: a run has safety checks or
\* location shares, not both.
OutageCreateCheck(contacts, duration) ==
    /\ locationShares = << >>
    /\ createSafetyCheck(contacts, duration)

OutageCreateShare(contacts, duration) ==
    /\ safetyChecks = << >>
    /\ createLocationShare(contacts, duration)

OutageNext ==
    \/ \E c \in UiContacts, d \in Durations : OutageCreateCheck(c, d)
    \/ \E c \in UiContacts, d \in ShareDurations : OutageCreateShare(c, d)
    \/ \E down \in SUBSET CheckIds : ScanChecksDuringOutage(down)
    \/ \E down \in SUBSET ShareIds : ScanSharesDuringOutage(down)
    \/ Tick

OutageSpec == LibInit /\ [][OutageNext]_vars

\* ------------------------------------------------------------------------
\* The user moves between the Safety Check page and the Share Location page
\* ------------------------------------------------------------------------
\* useSafetyCheck mounts: empty list, subscription, first snapshot on its way
Mount ==
    /\ ~mounted
    /\ ~shareMounted
    /\ mounted' = TRUE
    /\ activeChecks' = << >>
    /\ checkSnapDue' = TRUE
    /\ UNCHANGED << now, safetyChecks, scanEscalations, extendCalls, checkTimer,
                    checkIntervals, checkPending >>
    /\ UNCHANGED nonSessionVars

\* useSafetyCheck unmounts: the cleanups of both effects run; a suspended
\* snapshot callback will resume into a component that is gone
Unmount ==
    /\ mounted
    /\ mounted' = FALSE
    /\ activeChecks' = << >>
    /\ checkTimer' = NoTimer
    /\ checkIntervals' = ClearedBy(checkTimer, checkIntervals)
    /\ checkSnapDue' = FALSE
    /\ checkPending' = << >>
    /\ UNCHANGED << now, safetyChecks, scanEscalations, extendCalls >>
    /\ UNCHANGED nonSessionVars

ShareMount ==
    /\ ~mounted
    /\ ~shareMounted
    /\ shareMounted' = TRUE
    /\ activeShares' = << >>
    /\ shareSnapDue' = TRUE
    /\ UNCHANGED << locationShares, shareTimer, shareIntervals, sharePending >>
    /\ UNCHANGED nonShareVars

ShareUnmount ==
    /\ shareMounted
    /\ shareMounted' = FALSE
    /\ activeShares' = << >>
    /\ shareTimer' = NoTimer
    /\ shareIntervals' = ClearedBy(shareTimer, shareIntervals)
    /\ shareSnapDue' = FALSE
    /\ sharePending' = << >>
    /\ UNCHANGED locationShares
    /\ UNCHANGED nonShareVars

\* the ids of a list of the hook
ListedIds(list) == { list[i].id : i \in 1..Len(list) }

\* the pages' buttons: a page that is open starts sessions, up to
\* PageSessions, and ends the sessions it lists.  The two hooks have no state
\* in common: a run has safety checks or location shares, not both.
PageCreateCheck(contacts, duration) ==
    /\ mounted
    /\ locationShares = << >>
    /\ NextId(safetyChecks) <= PageSessions
    /\ createSafetyCheck(contacts, duration)

PageCheckIn(id) ==
    /\ mounted
    /\ id \in ListedIds(activeChecks)
    /\ checkIn(id)

PageCreateShare(contacts, duration) ==
    /\ shareMounted
    /\ safetyChecks = << >>
    /\ NextId(locationShares) <= PageSessions
    /\ createLocationShare(contacts, duration)

PageStopShare(id, checkedIn) ==
    /\ shareMounted
    /\ id \in ListedIds(activeShares)
    /\ stopLocationShare(id, checkedIn)

PagesNext ==
    \/ Mount
    \/ Unmount
    \/ ShareMount
    \/ ShareUnmount
    \/ \E c \in UiContacts, d \in Durations : PageCreateCheck(c, d)
    \/ \E id \in CheckIds : PageCheckIn(id)
    \/ SnapshotCallback
    \/ \E k \in 1..MaxPending : OnUpdate(k)
    \/ IntervalTick
    \/ \E c \in UiContacts, d \in ShareDurations : PageCreateShare(c, d)
    \/ \E id \in ShareIds, b \in BOOLEAN : PageStopShare(id, b)
    \/ ShareSnapshotCallback
    \/ \E k \in 1..MaxPending : ShareOnUpdate(k)
    \/ ShareIntervalTick
    \/ Tick

PagesSpec == LibInit /\ [][PagesNext]_vars

\* ------------------------------------------------------------------------
\* A signed-in user and the session timeout
\* ------------------------------------------------------------------------
\* the user has just signed in: the effect of useSessionTimeout has run
IdleInit ==
    /\ now = 0
    /\ mounted = FALSE
    /\ safetyChecks = << >>
    /\ scanEscalations = << >>
    /\ extendCalls = << >>
    /\ activeChecks = << >>
    /\ checkTimer = NoTimer
    /\ checkIntervals = 0
    /\ checkSnapDue = FALSE
    /\ checkPending = << >>
    /\ placeHelpfulness = << >>
    /\ safePlace = NoScore
    /\ submits = << >>
    /\ sosAlerts = << >>
    /\ sosUpdates = 0
    /\ movedNotices = << >>
    /\ locationCalls = << >>
    /\ tracking = NoAlert
    /\ sosErrors = 0
    /\ shareMounted = FALSE
    /\ locationShares = << >>
    /\ activeShares = << >>
    /\ shareTimer = NoTimer
    /\ shareIntervals = 0
    /\ shareSnapDue = FALSE
    /\ sharePending = << >>
    /\ scanFailures = 0
    /\ NothingAggregated
    /\ NothingFetched
    /\ NoReports
    /\ NothingNearby
    /\ NoAlarm
    /\ NoContacts
    /\ signedIn = TRUE
    /\ lastActivityRef = 0
    /\ warningAt = TimeoutTicks - WarningTicks
    /\ timeoutAt = TimeoutTicks
    /\ warningShownRef = FALSE
    /\ isWarningShown = FALSE
    /\ remainingTime = 0
    /\ countdownDue = FALSE
    /\ renderDue = FALSE
    /\ lastUserActivity = 0
    /\ wasSuspended = FALSE

IdleNext ==
    \/ handleActivity
    \/ WarningTimeout
    \/ RenderAfterWarning
    \/ SignOutTimeout
    \/ CountdownTick
    \/ handleExtendSession
    \/ IdleTick
    \/ Suspended

IdleSpec == IdleInit /\ [][IdleNext]_vars

\* ------------------------------------------------------------------------
\* A place just added, initialised, rated and recomputed
\* ------------------------------------------------------------------------
ScoreInit ==
    /\ now = 0
    /\ mounted = FALSE
    /\ safetyChecks = << >>
    /\ scanEscalations = << >>
    /\ extendCalls = << >>
    /\ activeChecks = << >>
    /\ checkTimer = NoTimer
    /\ checkIntervals = 0
    /\ checkSnapDue = FALSE
    /\ checkPending = << >>
    /\ placeHelpfulness = << >>
    /\ safePlace = FreshPlace
    /\ submits = << >>
    /\ sosAlerts = << >>
    /\ sosUpdates = 0
    /\ movedNotices = << >>
    /\ locationCalls = << >>
    /\ tracking = NoAlert
    /\ sosErrors = 0
    /\ shareMounted = FALSE
    /\ locationShares = << >>
    /\ activeShares = << >>
    /\ shareTimer = NoTimer
    /\ shareIntervals = 0
    /\ shareSnapDue = FALSE
    /\ sharePending = << >>
    /\ scanFailures = 0
    /\ NothingAggregated
    /\ NothingFetched
    /\ NoReports
    /\ NothingNearby
    /\ NoAlarm
    /\ NoContacts
    /\ NobodySignedIn

ScoreNext ==
    \/ \E u \in Users, h \in BOOLEAN : SubmitQuery(u, h)
    \/ \E k \in 1..MaxSubmits : SubmitWrite(k)
    \/ updatePlaceHelpfulness
    \/ \E k \in 1..MaxSubmits : RecomputeRead(k)
    \/ \E k \in 1..MaxSubmits : RecomputeStore(k)
    \/ initializeHelpfulnessFields

ScoreSpec == ScoreInit /\ [][ScoreNext]_vars

\* ------------------------------------------------------------------------
\* The metrics of feedback snapshots
\* ------------------------------------------------------------------------
\* n records alike
Records(n, isHelpful, updatedDaysAgo, serviceTags) ==
    [ i \in 1..n |-> [ isHelpful      |-> isHelpful,
                       updatedDaysAgo |-> updatedDaysAgo,
                       serviceTags    |-> serviceTags ] ]

\* the snapshot holds helpful and other records, some updated 30 days ago
\* and some 31 days ago
RateInit ==
    /\ EmptyStore
    /\ NobodySignedIn
    /\ NothingFetched
    /\ NoReports
    /\ NothingNearby
    /\ NoAlarm
    /\ NoContacts
    /\ helpfulnessMetrics = NoMetrics
    /\ \E a, b, c, d \in 0..MaxRecords :
          /\ a + b + c + d \in 1..MaxRecords
          /\ feedbackSnapshot = Records(a, TRUE, RecentDays, << >>)
                                    \o Records(b, TRUE, RecentDays + 1, << >>)
                                    \o Records(c, FALSE, RecentDays, << >>)
                                    \o Records(d, FALSE, RecentDays + 1, << >>)

RateSpec == RateInit /\ [][Aggregate]_vars

\* tags users give: two of COMMON_SERVICE_TAGS and a custom one
TagNames == << "Women Staff", "Safe Location", "constructor" >>

\* the snapshot holds n records, the k-th tag named by the first
\* mentions[k] of them, or seven records naming three of seven tags each
TagInit ==
    LET TaggedSnapshot(n, mentions) ==
            [ i \in 1..n |->
                [ isHelpful      |-> TRUE,
                  updatedDaysAgo |-> 0,
                  serviceTags    |-> SelectSeq(TagNames,
                                         LAMBDA tag : \E k \in 1..Len(TagNames) :
                                             TagNames[k] = tag /\ i <= mentions[k]) ] ]
        ManyTags == << "24/7 Service", "Women Staff", "Quick Response",
                       "Emergency Care", "Private Room", "Safe Location",
                       "Good Security" >>
        CrowdedSnapshot ==
            [ i \in 1..Len(ManyTags) |->
                [ isHelpful      |-> TRUE,
                  updatedDaysAgo |-> 0,
                  serviceTags    |-> [ j \in 1..3 |->
                                         ManyTags[((i + j - 2) % Len(ManyTags)) + 1] ] ] ]
    IN /\ EmptyStore
       /\ NobodySignedIn
       /\ NothingFetched
       /\ NoReports
       /\ NothingNearby
       /\ NoAlarm
       /\ NoContacts
       /\ helpfulnessMetrics = NoMetrics
       /\ \/ \E n \in 1..MaxTagRecords :
                \E mentions \in [ 1..Len(TagNames) -> 0..n ] :
                    feedbackSnapshot = TaggedSnapshot(n, mentions)
          \/ feedbackSnapshot = CrowdedSnapshot

TagSpec == TagInit /\ [][Aggregate]_vars

\* ------------------------------------------------------------------------
\* A place many users have rated, and two more who rate it in turn
\* ------------------------------------------------------------------------
\* the records of n earlier users, the first of them helpful
EarlierFeedback(n, helpful) ==
    LET EarlierUsers == << "e01", "e02", "e03", "e04", "e05", "e06", "e07",
                           "e08", "e09", "e10", "e11", "e12" >>
    IN [ i \in 1..n |-> [ placeId   |-> ThePlace,
                          userId    |-> EarlierUsers[i],
                          isHelpful |-> i <= helpful ] ]

VolumeInit ==
    /\ now = 0
    /\ mounted = FALSE
    /\ safetyChecks = << >>
    /\ scanEscalations = << >>
    /\ extendCalls = << >>
    /\ activeChecks = << >>
    /\ checkTimer = NoTimer
    /\ checkIntervals = 0
    /\ checkSnapDue = FALSE
    /\ checkPending = << >>
    /\ \E n \in 0..MaxVolume, helpful \in 0..MaxVolume :
          /\ helpful <= n
          /\ placeHelpfulness = EarlierFeedback(n, helpful)
          /\ safePlace = IF n = 0 THEN NoScore
                         ELSE HelpfulnessMetrics(placeHelpfulness, ThePlace)
    /\ submits = << >>
    /\ sosAlerts = << >>
    /\ sosUpdates = 0
    /\ movedNotices = << >>
    /\ locationCalls = << >>
    /\ tracking = NoAlert
    /\ sosErrors = 0
    /\ shareMounted = FALSE
    /\ locationShares = << >>
    /\ activeShares = << >>
    /\ shareTimer = NoTimer
    /\ shareIntervals = 0
    /\ shareSnapDue = FALSE
    /\ sharePending = << >>
    /\ scanFailures = 0
    /\ NothingAggregated
    /\ NothingFetched
    /\ NoReports
    /\ NothingNearby
    /\ NoAlarm
    /\ NoContacts
    /\ NobodySignedIn

\* one call at a time
SubmitInTurn(userId, isHelpful) ==
    /\ submits = << >>
    /\ BeginSubmit(userId, isHelpful)

VolumeNext ==
    \/ \E u \in Users, h \in BOOLEAN : SubmitInTurn(u, h)
    \/ \E k \in 1..MaxSubmits : SubmitWrite(k)
    \/ \E k \in 1..MaxSubmits : RecomputeRead(k)
    \/ \E k \in 1..MaxSubmits : RecomputeStore(k)

VolumeSpec == VolumeInit /\ [][VolumeNext]_vars

\* ------------------------------------------------------------------------
\* Queries to the Overpass servers
\* ------------------------------------------------------------------------

FetchNext ==
    \/ CallFetchWithRetry
    \/ ContactServer
    \/ \E outcome \in Outcomes : AttemptEnds(outcome)

FetchSpec == LibInit /\ [][FetchNext]_vars

\* ------------------------------------------------------------------------
\* Places reported again and again, one report after the other
\* ------------------------------------------------------------------------
ReportNext ==
    \/ \E p \in ReportedPlaces : reportSafePlace(p)
    \/ \E k \in 1..MaxReportCalls, ok \in BOOLEAN : ReportWrite(k, ok)

ReportSpec == LibInit /\ [][ReportNext]_vars

\* ------------------------------------------------------------------------
\* The places near a position, fetched for any response of the server
\* ------------------------------------------------------------------------
Responses == UNION { [ 1..n -> Elements ] : n \in 0..MaxElements }

NearbyNext ==
    \/ \E r \in Responses, ok \in BOOLEAN : fetchNearbyPoliceStations(r, ok)
    \/ \E r \in Responses, ok \in BOOLEAN : fetchNearbyHospitals(r, ok)

NearbySpec == LibInit /\ [][NearbyNext]_vars

\* ------------------------------------------------------------------------
\* The contact list: contacts added, edited and made primary, calls
\* overlapping, any store request failing
\* ------------------------------------------------------------------------
ContactNext ==
    \/ \E p \in BOOLEAN : addTrustedContact(p)
    \/ \E id \in 1..MaxContacts, p \in BOOLEAN : updateTrustedContact(id, p)
    \/ \E id \in 1..MaxContacts : setPrimaryContact(id)
    \/ \E k \in 1..MaxContactCalls, ok \in BOOLEAN : unsetPrimaryContactsQuery(k, ok)
    \/ \E k \in 1..MaxContactCalls, failed \in SUBSET (1..MaxContacts) :
           unsetPrimaryContactsWrite(k, failed)
    \/ \E k \in 1..MaxContactCalls, ok \in BOOLEAN : WriteContact(k, ok)

ContactSpec == LibInit /\ [][ContactNext]_vars

\* ------------------------------------------------------------------------
\* Claims
\* ------------------------------------------------------------------------
IsTerminal(d) == d.status # "active"

\* C1: once a session is terminal (checked-in, cancelled or alerted), no
\* later checkIn, cancel, escalate or extendDeadline call changes its state
\* or its deadline.
C1_TerminalIsAbsorbing ==
    [][ \A id \in DOMAIN safetyChecks :
            IsTerminal(safetyChecks[id]) =>
                /\ safetyChecks'[id].status = safetyChecks[id].status
                /\ safetyChecks'[id].checkInDeadline = safetyChecks[id].checkInDeadline ]_vars

\* C2: a session is escalated by scans at most once, whichever triggers
\* (snapshot callback, expiry effect, interval tick) process it: one
\* escalation write and one emergency notification.
C2_EscalatedOnce ==
    \A id \in DOMAIN safetyChecks : scanEscalations[id] <= 1

\* C3: while the page is mounted, the clock never passes the end of the scan
\* interval that follows the deadline of a session that is still active.
C3_ExpiredWithinInterval ==
    [][ (now' = now + 1 /\ mounted) =>
          \A id \in DOMAIN safetyChecks :
              safetyChecks[id].isActive =>
                  now < safetyChecks[id].checkInDeadline + CheckScanTicks ]_vars

\* what a scan of `list` at the present time is to do to the store
ScanPost(list) ==
    \A id \in DOMAIN safetyChecks :
        IF \E i \in 1..Len(list) :
               /\ list[i].id = id
               /\ list[i].status = "active"
               /\ list[i].checkInDeadline <= now
        THEN /\ safetyChecks'[id].status = "alerted"
             /\ ~safetyChecks'[id].isActive
             /\ scanEscalations'[id] = Min(scanEscalations[id] + 1, MaxEscalations)
        ELSE /\ safetyChecks'[id] = safetyChecks[id]
             /\ scanEscalations'[id] = scanEscalations[id]

C5_SecondScanNoChange ==
    [][ \A k \in 1..MaxPending :
            OnUpdate(k) => /\ safetyChecks' = safetyChecks
                           /\ scanEscalations' = scanEscalations ]_vars

\* C6: the deadline of a session never moves backward, whatever duration
\* extendDeadline is called with.
C6_DeadlineNeverMovesBack ==
    [][ \A id \in DOMAIN safetyChecks :
            safetyChecks'[id].checkInDeadline >= safetyChecks[id].checkInDeadline ]_vars

\* C7: an extendDeadline call with a positive duration that completes on an
\* active session moves the deadline the session has by exactly that duration
\* and adds the same minutes to the tracked duration, so that completed calls
\* add up.
C7_ExtendAddsExactly ==
    [][ \A k \in 1..Len(extendCalls) :
            ( /\ extendDeadlineWrite(k)
              /\ extendCalls[k].additionalMinutes > 0
              /\ safetyChecks[extendCalls[k].checkId].status = "active" )
            => LET c == extendCalls[k] IN
               /\ safetyChecks'[c.checkId].checkInDeadline =
                      safetyChecks[c.checkId].checkInDeadline
                          + c.additionalMinutes * TicksPerMinute
               /\ safetyChecks'[c.checkId].duration =
                      safetyChecks[c.checkId].duration + c.additionalMinutes ]_vars

\* C8: every persisted session has at least one recipient.
C8_RecipientsNonEmpty ==
    \A id \in DOMAIN safetyChecks : Len(safetyChecks[id].contactIds) > 0

\* C9: there is at most one feedback record for a place and a user.
C9_OneFeedbackPerUser ==
    \A u \in Users : Cardinality(FeedbackBy(placeHelpfulness, ThePlace, u)) <= 1

\* C10: once every submission has completed, and each user has a single
\* record, the stored score is the aggregate of the feedback records the
\* place has.
C10_ScoreMatchesFeedback ==
    (submits = << >> /\ C9_OneFeedbackPerUser /\ DOMAIN placeHelpfulness # {})
        => safePlace = HelpfulnessMetrics(placeHelpfulness, ThePlace)

\* C11: once movedSignificantly is true for an alert it stays true under
\* every later location update.
C11_MovedStaysTrue ==
    [][ \A id \in DOMAIN sosAlerts :
            sosAlerts[id].hasMovedSignificantly
                => sosAlerts'[id].hasMovedSignificantly ]_vars

\* C12: the 'moved significantly' notification is sent at most once per
\* alert.
C12_MovedNoticeOnce ==
    \A id \in DOMAIN sosAlerts : movedNotices[id] <= 1

\* C13: once an alert is resolved or cancelled, no location update changes
\* its last known location.
C13_NoUpdateAfterEnd ==
    [][ \A id \in DOMAIN sosAlerts :
            sosAlerts[id].status # "active"
                => sosAlerts'[id].lastKnownLocation
                       = sosAlerts[id].lastKnownLocation ]_vars

\* C14: when updateSOSLocation reports an error to its caller, and no other
\* call was in progress, the alert's location fields are as the call found
\* them: nothing of its update has been persisted.
C14_FailedUpdateLeavesNothing ==
    [][ \A k \in 1..Len(locationCalls) :
            ( /\ Len(locationCalls) = 1
              /\ UpdateAlertFails(k) \/ RecordUpdateFails(k) )
            => LET c == locationCalls[k] IN
               /\ sosAlerts'[c.alertId].lastKnownLocation
                      = c.before.lastKnownLocation
               /\ sosAlerts'[c.alertId].hasMovedSignificantly
                      = c.before.hasMovedSignificantly ]_vars

\* what a scan of the active checks is to do when the writes to the ids in
\* down fail
OutageScanPost(list, down) ==
    \A id \in DOMAIN safetyChecks :
        IF /\ id \notin down
           /\ \E i \in 1..Len(list) :
                  /\ list[i].id = id
                  /\ list[i].isActive
                  /\ list[i].checkInDeadline <= now
        THEN /\ safetyChecks'[id].status = "alerted"
             /\ ~safetyChecks'[id].isActive
             /\ scanEscalations'[id] = Min(scanEscalations[id] + 1, MaxEscalations)
        ELSE /\ safetyChecks'[id] = safetyChecks[id]
             /\ scanEscalations'[id] = scanEscalations[id]

\* the number of due entries of a list whose write fails
DueAndDown(list, due(_), down) ==
    Cardinality({ i \in 1..Len(list) : due(list[i]) /\ list[i].id \in down })

\* the same for a scan of the active shares
OutageSharePost(list, down) ==
    \A id \in DOMAIN locationShares :
        IF /\ id \notin down
           /\ \E i \in 1..Len(list) :
                  /\ list[i].id = id
                  /\ list[i].isActive
                  /\ list[i].endTime # NoEnd
                  /\ list[i].endTime <= now
        THEN /\ ~locationShares'[id].isActive
             /\ locationShares'[id].endTime = now
        ELSE locationShares'[id] = locationShares[id]

\* C15: when the write that escalates or expires a session fails during a
\* scan, that session is left as it was and every other due session of the
\* list is still escalated or expired.
C15_ScanSurvivesFailedWrite ==
    [][ /\ \A down \in SUBSET CheckIds :
               ScanChecksDuringOutage(down)
                   => LET list == ActiveQuery(safetyChecks)
                          due(c) == c.isActive /\ c.checkInDeadline <= now
                      IN /\ OutageScanPost(list, down)
                         /\ scanFailures' = Min(scanFailures
                                + DueAndDown(list, due, down), MaxErrors)
        /\ \A down \in SUBSET ShareIds :
               ScanSharesDuringOutage(down)
                   => LET list == ActiveQuery(locationShares)
                          due(c) == c.isActive /\ c.endTime # NoEnd
                                               /\ c.endTime <= now
                      IN /\ OutageSharePost(list, down)
                         /\ scanFailures' = Min(scanFailures
                                + DueAndDown(list, due, down), MaxErrors) ]_vars

\* C15 witness: a check whose escalation write failed is still active past
\* its deadline, and a check after it in the same list was escalated
C15_Witness ==
    \E a, b \in DOMAIN safetyChecks :
        /\ a < b
        /\ safetyChecks[a].isActive
        /\ safetyChecks[a].checkInDeadline <= now
        /\ safetyChecks[b].status = "alerted"
        /\ scanEscalations[b] = 1

C17_SignedOutAfterTimeout ==
    (signedIn /\ NothingDue /\ ~wasSuspended)
        => now <= lastUserActivity + TimeoutTicks

\* C18: cancelling an active safety check leaves it with a stored status
\* other than checked-in, and the check-in history does not show it as
\* completed.
C18_CancelledIsNotCheckedIn ==
    [][ \A id \in DOMAIN safetyChecks :
            (safetyChecks[id].isActive /\ cancelSafetyCheck(id))
                => /\ safetyChecks'[id].status # "checked-in"
                   /\ getCheckInHistory(safetyChecks')[id].status # "completed" ]_vars

\* a field of the place's document is stored and has this value
Stored(place, field, value) ==
    /\ field \in DOMAIN place
    /\ place[field] = value

\* C19: a place that has a stored totalFeedback has a stored helpfulCount and
\* notHelpfulCount, and totalFeedback is their sum.
C19_TotalIsSum ==
    "totalFeedback" \in DOMAIN safePlace
        => /\ "helpfulCount" \in DOMAIN safePlace
           /\ "notHelpfulCount" \in DOMAIN safePlace
           /\ safePlace.totalFeedback
                  = safePlace.helpfulCount + safePlace.notHelpfulCount

\* C20: when updatePlaceHelpfulness found no feedback record, the place has
\* unifiedScore 0, confidenceLevel low and no top tags after its write.
C20_NoFeedbackResetsAll ==
    [][ \A k \in 1..Len(submits) :
            (submits[k].pc = "store" /\ submits[k].metrics = ResetFields
                 /\ RecomputeStore(k))
                => /\ Stored(safePlace', "helpfulnessScore", 0)
                   /\ Stored(safePlace', "confidenceLevel", "low")
                   /\ Stored(safePlace', "serviceTags", << >>) ]_vars

\* the counts of a snapshot
HelpfulIn(docs) == { i \in 1..Len(docs) : docs[i].isHelpful }
RecentIn(docs) == { i \in 1..Len(docs) : docs[i].updatedDaysAgo <= RecentDays }

\* round(0.7 * overallRate + 0.3 * recentRate) in exact arithmetic, a half
\* rounded up
RoundedWeightedRate(docs) ==
    LET total == Len(docs)
        helpful == Cardinality(HelpfulIn(docs))
        anyRecent == RecentIn(docs) # {}
        rt == IF anyRecent THEN Cardinality(RecentIn(docs)) ELSE total
        rh == IF anyRecent THEN Cardinality(HelpfulIn(docs) \cap RecentIn(docs))
              ELSE helpful
    IN (2 * (70 * helpful * rt + 30 * rh * total) + total * rt)
           \div (2 * total * rt)

\* C21: the unifiedScore computed for a non-empty feedback set is
\* round(0.7 * overallRate + 0.3 * recentRate), an integer in 0..100, and
\* 100 when every record is helpful.
C21_ScoreIsRoundedWeightedRate ==
    helpfulnessMetrics # NoMetrics
        => /\ helpfulnessMetrics.helpfulnessScore
                  = RoundedWeightedRate(feedbackSnapshot)
           /\ helpfulnessMetrics.helpfulnessScore \in 0..100
           /\ Cardinality(HelpfulIn(feedbackSnapshot)) = Len(feedbackSnapshot)
                  => helpfulnessMetrics.helpfulnessScore = 100

\* minSupport = max(1, floor(totalFeedback * 0.2))
MinSupport(totalFeedback) == Max(1, totalFeedback \div 5)

\* the tags of a snapshot named at least minSupport times
Supported(docs) ==
    LET tags == allServiceTags(docs) IN
    { tag \in { tags[i] : i \in 1..Len(tags) } :
          TagCount(tags, tag) >= MinSupport(Len(docs)) }

\* C22: topTags holds the tags named at least minSupport times, each once,
\* in descending order of their counts, all of them if they are at most 6
\* and the 6 named most often otherwise.
C22_TopTagsAreSupportedTags ==
    helpfulnessMetrics # NoMetrics
        => LET top == helpfulnessMetrics.serviceTags
               tags == allServiceTags(feedbackSnapshot)
           IN /\ \A i \in 1..Len(top) : top[i] \in Supported(feedbackSnapshot)
              /\ \A i, j \in 1..Len(top) :
                     i < j => /\ top[i] # top[j]
                              /\ TagCount(tags, top[i]) >= TagCount(tags, top[j])
              /\ Len(top) = Min(TopTagLimit,
                                Cardinality(Supported(feedbackSnapshot)))
              /\ \A tag \in Supported(feedbackSnapshot) :
                     \A i \in 1..Len(top) :
                         tag \in { top[k] : k \in 1..Len(top) }
                             \/ TagCount(tags, tag) <= TagCount(tags, top[i])

Attempts(kinds) == { k \in 1..Len(responses) : responses[k] \in kinds }

\* at most Retries attempts, the k-th to the k-th server
FailsOver ==
    /\ Len(contacted) <= Retries
    /\ \A k \in 1..Len(contacted) :
           contacted[k] = OVERPASS_SERVERS[((k - 1) % Len(OVERPASS_SERVERS)) + 1]

\* the call returns at the first response of the given kinds, contacts no
\* server after it, and throws if it ends without one
ReturnsFirst(kinds) ==
    /\ \A k \in Attempts(kinds) : k = Len(contacted) /\ fetchState = "returned"
    /\ fetchState = "returned" => Attempts(kinds) # {}
    /\ (Attempts(kinds) = {} /\ Len(responses) = Retries) => fetchState = "threw"
    /\ fetchState = "threw" => Len(responses) = Retries

\* C24: fetchWithRetry makes at most 3 attempts, each against the next
\* server; it returns at the first OK response, contacting no further
\* server, and ends with an error when no attempt got an OK response.
C24_ReturnsFirstOkResponse ==
    FailsOver /\ ReturnsFirst({ "ok", "unparsable" })

\* C24, amended: the same with an OK response whose body is not JSON treated
\* as a failed attempt: the call returns at the first OK response whose body
\* parses.
C24_ReturnsFirstParsedResponse ==
    FailsOver /\ ReturnsFirst({ "ok" })

\* the call returned the response of the second server, the first having
\* failed
C24_Witness ==
    /\ fetchState = "returned"
    /\ contacted = SubSeq(OVERPASS_SERVERS, 1, 2)
    /\ responses = << "failed", "ok" >>

\* C25: a scan sends an emergency notification for a check, and sets it to
\* 'alerted', only when the stored check is not in the terminal state the
\* user's check-in or cancellation left it in: no step in which a scan
\* notifies for a check starts with the stored check 'checked-in', whatever
\* the age of the list the scan runs on.
C25_ScanSparesCheckedIn ==
    [][\A id \in DOMAIN safetyChecks :
           scanEscalations'[id] > scanEscalations[id]
               => safetyChecks[id].status # "checked-in"]_vars

\* C28: in every stored safety check isActive is true exactly when status
\* is 'active', and hasCheckedIn is true only when status is 'checked-in'.
C28_FlagsAgreeWithStatus ==
    \A id \in DOMAIN safetyChecks :
        /\ safetyChecks[id].isActive <=> safetyChecks[id].status = "active"
        /\ safetyChecks[id].hasCheckedIn => safetyChecks[id].status = "checked-in"

\* the contacts stored as primary
PrimaryContacts == { id \in DOMAIN trustedContacts : trustedContacts[id].isPrimary }

\* C26: whenever the calls made so far have all completed, at most one
\* contact of the user is primary, whether or not calls overlapped and
\* whether or not unsetting the previous primary failed.
C26_AtMostOnePrimary ==
    contactCalls = << >> => Cardinality(PrimaryContacts) <= 1

\* a resolveSOSAlert or cancelSOSAlert call completes: it sets the status
\* of an alert
AlertClosed ==
    \E id \in DOMAIN sosAlerts :
        /\ sosAlerts'[id].status \in { "resolved", "cancelled" }
        /\ sosAlerts'[id].status # sosAlerts[id].status

\* C27: when resolveSOSAlert or cancelSOSAlert has completed, no alarm
\* started by a loud triggerSOS is playing any more, whatever triggers,
\* resolves and cancels came before.
C27_AlarmSilentAfterClose ==
    [][AlertClosed => audioPlaying' = {}]_vars

\* C29: the places a fetchNearby call returned are in the order of their
\* distance from the query point, nearest first, whether the distances are
\* below or above 1 km.
C29_NearestFirst ==
    \A i, j \in 1..Len(nearbyPlaces) :
        i < j => nearbyPlaces[i].coordinates <= nearbyPlaces[j].coordinates

\* C30: whenever the reports made so far have all completed, the
\* reportCount of a place, 0 before the first report, is the number of
\* reportSafePlace calls for it that succeeded.
C30_ReportCountIsReports ==
    reportCalls = << >>
        => \A p \in ReportedPlaces : reportCount[p] = reportsDone[p]

====
